---------------------------- MODULE Spec2Model ----------------------------
(***************************************************************************)
(* Model of the mod-host pedalboard loader and MIDI Program Change router   *)
(* (load_single.py; load.py, listen3.py and modhost_cmd.py share the same   *)
(* helpers).                                                                *)
(*                                                                          *)
(* Text is modelled as a sequence of one-character strings; the token       *)
(* "NUL" stands for the byte 0x00.  Optional[int] is modelled as a          *)
(* sequence: <<>> is None and <<n>> is the integer n.                       *)
(***************************************************************************)
EXTENDS Integers, Sequences, FiniteSets, TLC

(***************************************************************************)
(* Generic sequence helpers                                                 *)
(***************************************************************************)
Range(s) == { s[i] : i \in 1..Len(s) }

Reverse(s) == [ i \in 1..Len(s) |-> s[Len(s) + 1 - i] ]

IsPrefix(p, s) == Len(p) <= Len(s) /\ SubSeq(s, 1, Len(p)) = p

None == << >>

Some(n) == << n >>

(***************************************************************************)
(* Python str helpers used by send_cmd / parse_resp / expand_port           *)
(***************************************************************************)
Whitespace == { " ", "\t", "\n", "\r" }

Digits == { "0", "1", "2", "3", "4", "5", "6", "7", "8", "9" }

DigitVal(c) ==
    CASE c = "0" -> 0 [] c = "1" -> 1 [] c = "2" -> 2 [] c = "3" -> 3
      [] c = "4" -> 4 [] c = "5" -> 5 [] c = "6" -> 6 [] c = "7" -> 7
      [] c = "8" -> 8 [] c = "9" -> 9

RECURSIVE LStrip(_)
LStrip(s) ==
    IF s # << >> /\ Head(s) \in Whitespace THEN LStrip(Tail(s)) ELSE s

RECURSIVE RStrip(_)
RStrip(s) ==
    IF s # << >> /\ s[Len(s)] \in Whitespace
    THEN RStrip(SubSeq(s, 1, Len(s) - 1))
    ELSE s

\* str.strip()
Strip(s) == RStrip(LStrip(s))

\* bytes.replace(b"\x00", b"") / str.replace("\x00", "")
RemoveNul(s) == SelectSeq(s, LAMBDA c : c # "NUL")

\* str.startswith
StartsWith(s, p) == IsPrefix(p, s)

\* str.split() : split on runs of whitespace, no empty fields
RECURSIVE SplitWs(_, _, _)
SplitWs(s, cur, acc) ==
    IF s = << >>
    THEN IF cur = << >> THEN acc ELSE Append(acc, cur)
    ELSE IF Head(s) \in Whitespace
         THEN SplitWs(Tail(s), << >>, IF cur = << >> THEN acc ELSE Append(acc, cur))
         ELSE SplitWs(Tail(s), Append(cur, Head(s)), acc)

Split(s) == SplitWs(s, << >>, << >>)

\* str.isdigit() : non-empty and every character a digit
IsDigitStr(s) == s # << >> /\ \A i \in 1..Len(s) : s[i] \in Digits

RECURSIVE DigitsVal(_, _)
DigitsVal(s, acc) ==
    IF s = << >> THEN acc ELSE DigitsVal(Tail(s), 10 * acc + DigitVal(Head(s)))

\* int(tok) : optional sign then decimal digits; ValueError is None
ParseInt(tok) ==
    IF tok # << >> /\ Head(tok) \in { "-", "+" }
    THEN IF IsDigitStr(Tail(tok))
         THEN Some((IF Head(tok) = "-" THEN -1 ELSE 1) * DigitsVal(Tail(tok), 0))
         ELSE None
    ELSE IF IsDigitStr(tok) THEN Some(DigitsVal(tok, 0)) ELSE None

\* str(n) for n >= 0
RECURSIVE NatStr(_)
NatStr(n) ==
    LET d == << "0", "1", "2", "3", "4", "5", "6", "7", "8", "9" >>
    IN  IF n < 10 THEN << d[n + 1] >> ELSE Append(NatStr(n \div 10), d[(n % 10) + 1])

\* index of the first ":" in a port name, 0 when there is none
RECURSIVE FirstColon(_, _)
FirstColon(s, i) ==
    IF i > Len(s) THEN 0
    ELSE IF s[i] = ":" THEN i ELSE FirstColon(s, i + 1)

(***************************************************************************)
(* Control protocol helpers                                                 *)
(***************************************************************************)
\* send_cmd's post-processing of the bytes read from the socket
send_cmd_decode(raw) == Strip(RemoveNul(raw))

parse_resp(resp) ==
    LET r == RemoveNul(Strip(resp))
        parts == Split(r)
    IN  IF ~StartsWith(r, << "r", "e", "s", "p", " " >>) THEN None
        ELSE IF Len(parts) < 2 THEN None
        ELSE ParseInt(parts[2])

\* an expect_zero that takes every integer code for success
expect_zero_any(resp) == parse_resp(resp) # None

\* TRUE iff expect_zero returns normally (FALSE: it raises RuntimeError)
expect_zero(resp) == parse_resp(resp) = Some(0)

\* an expect_nonnegative that takes code 0 for a failure
expect_nonnegative_positive(resp) ==
    LET code == parse_resp(resp)
    IN  code # None /\ code[1] > 0

\* TRUE iff expect_nonnegative returns normally (FALSE: it raises RuntimeError)
expect_nonnegative(resp) ==
    LET code == parse_resp(resp)
    IN  code # None /\ code[1] >= 0

\* an expand_port that prefixes every name holding a colon
expand_port_any(port) ==
    IF FirstColon(port, 1) > 0 THEN << "e", "f", "f", "e", "c", "t", "_" >> \o port ELSE port

expand_port(port) ==
    LET c == FirstColon(port, 1)
        left == SubSeq(port, 1, c - 1)
        right == SubSeq(port, c + 1, Len(port))
    IN  IF c > 0 /\ IsDigitStr(left)
        THEN << "e", "f", "f", "e", "c", "t", "_" >> \o left \o << ":" >> \o right
        ELSE port

(***************************************************************************)
(* MIDI decoding (mido.Message.from_bytes as used by decode_mido)           *)
(***************************************************************************)
\* message type of a channel-voice status byte, by its high nibble
ChannelType(status) ==
    CASE status \div 16 = 8  -> "note_off"
      [] status \div 16 = 9  -> "note_on"
      [] status \div 16 = 10 -> "polytouch"
      [] status \div 16 = 11 -> "control_change"
      [] status \div 16 = 12 -> "program_change"
      [] status \div 16 = 13 -> "aftertouch"
      [] status \div 16 = 14 -> "pitchwheel"

\* total length of a message with this status byte; 0 for an undefined status
MsgLength(status) ==
    IF status < 128 THEN 0
    ELSE IF status < 240
         THEN (IF status \div 16 \in { 12, 13 } THEN 2 ELSE 3)
         ELSE CASE status \in { 241, 243 } -> 2
                [] status = 242 -> 3
                [] status \in { 246, 248, 250, 251, 252, 254, 255 } -> 1
                [] OTHER -> 0

\* decode_mido : <<>> (None) when from_bytes raises ValueError, else <<msg>>
decode_mido(event_bytes) ==
    IF event_bytes = << >> THEN None
    ELSE LET status == event_bytes[1]
             data == Tail(event_bytes)
         IN  IF MsgLength(status) = 0 \/ Len(event_bytes) # MsgLength(status) THEN None
             ELSE IF \E k \in 1..Len(data) : data[k] > 127 THEN None
             ELSE IF status < 240
                  THEN Some([ type |-> ChannelType(status),
                              channel |-> status % 16,
                              program |-> IF status \div 16 = 12 THEN data[1] ELSE 0 ])
                  ELSE Some([ type |-> "system", channel |-> 0, program |-> 0 ])

(***************************************************************************)
(* Program constants                                                        *)
(***************************************************************************)
SFIZZ_URI == "http://sfztools.github.io/sfizz"

COMMON_CHANNEL == 2

EVENT_Q_MAXSIZE == 2048

SEND_Q_MAXSIZE == 128

\* FILTER_CHANNEL = None : no channel filter is configured
FILTER_CHANNEL == None

(***************************************************************************)
(* Bounds of the model                                                      *)
(***************************************************************************)
\* processing cycles that deliver input, in the session scenarios
MaxCycles == 1

\* processing cycles that deliver input, in the routing scenarios
MaxRouteCycles == 3

\* host or JACK faults injected per run, in the session scenarios
MaxFaults == 2

\* host or JACK faults injected per run, in the routing scenarios
MaxRouteFaults == 1

\* interrupt signals (Ctrl+C) delivered per run
MaxInterrupts == 2

\* processing cycles that deliver input, in the queue-pressure scenarios
MaxBurstCycles == 2

\* events delivered by one processing cycle of a burst
BurstLen == 2047

(***************************************************************************)
(* Session documents                                                        *)
(***************************************************************************)
\* "10:o", "11:o", "s:p" (a system port), "s:c"
P10 == << "1", "0", ":", "o" >>

P11 == << "1", "1", ":", "o" >>

PSysOut == << "s", ":", "p" >>

PSysIn == << "s", ":", "c" >>

Conn(a, b) == [ from |-> a, to |-> b ]

Plugin(u, st, ct, bp) == [ uri |-> u, state |-> st, controls |-> ct, bypass |-> bp ]

OTHER_URI == "urn:other"

BypassFlags == { "absent", "true", "false" }

Entry(sid, p) == [ sid |-> sid, p |-> p ]

\* two interchangeable instruments (10 with patch state and a control) and one effect,
\* listed in the document in the order 11, 12, 10
PluginsWith(b10, b11) ==
    << Entry(11, Plugin(SFIZZ_URI, << >>, << >>, b11)),
       Entry(12, Plugin(OTHER_URI, << >>, << >>, "absent")),
       Entry(10, Plugin(SFIZZ_URI, << << "k", "v" >> >>, << << "gain", "1" >> >>, b10)) >>

ConnLists ==
    { << Conn(P10, PSysOut), Conn(P10, PSysOut) >>,
      << Conn(PSysIn, P10), Conn(P10, PSysOut), Conn(P11, PSysOut) >> }

Doc(pl, cn) == [ plugins |-> pl, connections |-> cn ]

\* session scenarios: every combination of bypass flags of the two instruments,
\* several connection lists, and the empty document
Docs ==
    { Doc(PluginsWith(b10, b11), << Conn(P10, PSysOut) >>) :
        b10 \in BypassFlags, b11 \in BypassFlags }
    \cup { Doc(PluginsWith("false", "true"), cn) : cn \in ConnLists }
    \cup { Doc(<< >>, << >>) }

\* routing scenarios: instrument 10 active, instrument 11 bypassed
RouteDocs == { Doc(PluginsWith("false", "true"), << Conn(P10, PSysOut) >>) }

\* raw MIDI events: Program Change 10/11/12 on channel 2, a note-on, a truncated message
RawEvents == { << 193, 10 >>, << 193, 11 >>, << 193, 12 >>, << 144, 60, 100 >>, << 193 >> }

\* what one processing cycle may deliver: nothing, or one event
Batches == { << >> } \cup { << e >> : e \in RawEvents }

\* the session scenarios' input: nothing, or a Program Change 11
SessionBatches == { << >>, << << 193, 11 >> >> }

\* queue-pressure scenarios: a single instrument, and cycles that deliver nothing,
\* a burst of MIDI clock messages, or a pair of Program Changes
BurstDocs ==
    { Doc(<< Entry(10, Plugin(SFIZZ_URI, << << "k", "v" >> >>, << << "gain", "1" >> >>,
                              "false")) >>,
          << Conn(P10, PSysOut) >>) }

Burst == [ k \in 1..BurstLen |-> << 248 >> ]

BurstBatches == { << >>, Burst, << << 193, 10 >>, << 193, 11 >> >> }

(***************************************************************************)
(* State                                                                    *)
(***************************************************************************)
VARIABLES
    plugins,             \* pb["plugins"], in document order
    connections,         \* pb["connections"]
    batches,             \* the event batches a processing cycle may deliver in this run
    filter_channel,      \* the value FILTER_CHANNEL is set to in this run
    cycLeft,             \* processing cycles with input still to come
    faultLeft,           \* faults still to be injected
    sigLeft,             \* interrupt signals still to come
    pc,                  \* position of the main thread
    i,                   \* index of the current for-loop
    j,                   \* index of the inner for-loop (state / controls items)
    sending,             \* main() is inside send_cmd, past create_connection
    openSocks,           \* number of command connections that are open
    piano_ids,
    active_piano,
    loaded_ids,
    active_connections,
    last_prog,
    data,                \* the event the router dequeued last
    prog,                \* msg.program of the Program Change being handled
    event_q,
    send_q,
    hostInst,            \* mod-host's instances: id -> "absent" | "active" | "bypassed"
    jackState,           \* the JACK client: "inactive" | "active" | "closed"
    outConnected,        \* out_port is connected to system:midi_playback_1
    outWritten,          \* events written to out_port: <<bytes, connected>>
    setupLog,            \* commands issued during setup, in order
    selLog,              \* bypass commands issued for the event being handled
    selOk,               \* no bypass command of the event being handled has failed
    tearLog,             \* steps attempted during teardown, in order
    tearFailed,          \* number of teardown commands that did not get a success reply
    last,                \* the most recently completed step and what its handler printed
    prevPC,              \* program of the latest Program Change dequeued before `data`
    prevGap,             \* other events were dequeued between that Program Change and `data`
    sigAt,               \* where the main thread was at each interrupt signal
    arg,                 \* the text handed to a helper that is called on its own
    ret,                 \* what that helper returned or raised
    load                 \* a run of load.py on the same document, replies and events

vars ==
    << plugins, connections, batches, filter_channel, cycLeft, faultLeft, sigLeft, pc, i, j, sending,
       openSocks, piano_ids, active_piano, loaded_ids, active_connections, last_prog,
       data, prog, event_q, send_q, hostInst, jackState, outConnected, outWritten,
       setupLog, selLog, selOk, tearLog, tearFailed, last, prevPC, prevGap, sigAt,
       arg, ret, load >>

sock == << sending, openSocks >>

inputVars == << plugins, connections, batches, filter_channel >>

sessionVars == << piano_ids, active_piano, loaded_ids, active_connections >>

routerVars == << last_prog, data, prog, prevPC, selOk >>

jackVars == << jackState, outConnected >>

callbackVars == << event_q, send_q, outWritten, cycLeft >>

logVars == << setupLog, selLog, tearLog >>

ghostVars == << tearFailed, prevGap >>

helperVars == << arg, ret, load >>

\* the state of load_single.py's run
singleVars ==
    << plugins, connections, batches, filter_channel, cycLeft, faultLeft, sigLeft, pc, i, j, sending,
       openSocks, piano_ids, active_piano, loaded_ids, active_connections, last_prog,
       data, prog, event_q, send_q, hostInst, jackState, outConnected, outWritten,
       setupLog, selLog, selOk, tearLog, tearFailed, last, prevPC, prevGap, sigAt,
       arg, ret >>

(***************************************************************************)
(* The document as main() reads it                                          *)
(***************************************************************************)
\* insertion of key k into a list sorted by integer value (stable)
RECURSIVE InsertSorted(_, _)
InsertSorted(k, s) ==
    IF s = << >> THEN << k >>
    ELSE IF k < Head(s) THEN << k >> \o s
    ELSE << Head(s) >> \o InsertSorted(k, Tail(s))

RECURSIVE SortKeys(_, _)
SortKeys(entries, acc) ==
    IF entries = << >> THEN acc
    ELSE SortKeys(Tail(entries), InsertSorted(Head(entries).sid, acc))

\* the keys in document order, unsorted
DocumentOrderIds == [ k \in 1..Len(plugins) |-> plugins[k].sid ]

\* sorted(plugins.keys(), key=lambda x: int(x))
SortedIds == SortKeys(plugins, << >>)

\* plugins[sid]
PluginOf(sid) == (CHOOSE e \in Range(plugins) : e.sid = sid).p

\* p.get("state", {}) or {} ; p.get("controls", {}) or {}
StateOf(sid) == PluginOf(sid).state

ControlsOf(sid) == PluginOf(sid).controls

(***************************************************************************)
(* Commands and host outcomes                                               *)
(***************************************************************************)
NoPort == << >>

Cmd(op, inst, val, key, value, src, dst) ==
    [ op |-> op, inst |-> inst, val |-> val, key |-> key, value |-> value,
      src |-> src, dst |-> dst ]

AddCmd(inst) == Cmd("add", inst, 0, PluginOf(inst).uri, "", NoPort, NoPort)

PatchSetCmd(inst, key, value) == Cmd("patch_set", inst, 0, key, value, NoPort, NoPort)

ParamSetCmd(inst, symbol, value) == Cmd("param_set", inst, 0, symbol, value, NoPort, NoPort)

BypassCmd(inst, bypass_on) ==
    Cmd("bypass", inst, IF bypass_on THEN 1 ELSE 0, "", "", NoPort, NoPort)

ConnectCmd(src, dst) == Cmd("connect", 0, 0, "", "", src, dst)

DisconnectCmd(src, dst) == Cmd("disconnect", 0, 0, "", "", src, dst)

RemoveCmd(inst) == Cmd("remove", inst, 0, "", "", NoPort, NoPort)

(***************************************************************************)
(* mod-host, as load_single.py's compatibility notes describe it: add       *)
(* answers "resp <id>" (or "resp 0"), the setters and connect answer        *)
(* "resp 0" on success, errors are negative; NUL bytes may be included.     *)
(***************************************************************************)
Resp == << "r", "e", "s", "p", " " >>

RespZero == Resp \o << "0" >>

RespZeroNul == << "NUL" >> \o Resp \o << "0", "NUL", "NUL", "\n" >>

RespId(inst) == Resp \o NatStr(inst)

RespError == Resp \o << "-", "1", "0", "1" >>

Garbage == << "g", "a", "r", "b", "a", "g", "e" >>

OkReplies(cmd) ==
    IF cmd.op = "add" THEN { RespId(cmd.inst), RespZero, RespZeroNul }
    ELSE { RespZero, RespZeroNul }

ErrReplies == { RespError }

JunkReplies == { Garbage, << >> }

\* whether the host is able to carry the command out
HostCan(cmd) ==
    CASE cmd.op = "add" -> hostInst[cmd.inst] = "absent"
      [] cmd.op \in { "patch_set", "param_set", "bypass", "remove" } ->
             hostInst[cmd.inst] # "absent"
      [] OTHER -> TRUE

Outcome(kind, raw, applied) == [ kind |-> kind, raw |-> raw, applied |-> applied ]

Refused == Outcome("refused", << >>, FALSE)

\* what can happen to a command once the connection is open: a reply (the host
\* carried the command out iff it says so), an unparsable reply, or a transport
\* error (timeout, reset) after which the host may or may not have acted
SentOutcomes(cmd) ==
    LET may == IF HostCan(cmd) THEN BOOLEAN ELSE { FALSE }
    IN  { Outcome("reply", r, TRUE) : r \in IF HostCan(cmd) THEN OkReplies(cmd) ELSE { } }
        \cup { Outcome("reply", r, FALSE) : r \in ErrReplies }
        \cup { Outcome("reply", r, a) : r \in JunkReplies, a \in may }
        \cup { Outcome("error", << >>, a) : a \in may }

IsFault(cmd, o) == ~(o.kind = "reply" /\ o.raw \in OkReplies(cmd))

\* the host's instances after it carried the command out
HostApply(cmd) ==
    CASE cmd.op = "add" -> [ hostInst EXCEPT ![cmd.inst] = "active" ]
      [] cmd.op = "bypass" ->
             [ hostInst EXCEPT ![cmd.inst] = IF cmd.val = 1 THEN "bypassed" ELSE "active" ]
      [] cmd.op = "remove" -> [ hostInst EXCEPT ![cmd.inst] = "absent" ]
      [] OTHER -> hostInst

(***************************************************************************)
(* The helpers' verdict on an outcome: TRUE iff the helper returns          *)
(* normally, FALSE iff it raises (socket error or RuntimeError)             *)
(***************************************************************************)
send_cmd_ok(o) == o.kind = "reply"

mod_add(o) == send_cmd_ok(o) /\ expect_nonnegative(send_cmd_decode(o.raw))

mod_bypass(o) == send_cmd_ok(o) /\ expect_zero(send_cmd_decode(o.raw))

mod_param_set(o) == send_cmd_ok(o) /\ expect_zero(send_cmd_decode(o.raw))

mod_patch_set(o) == send_cmd_ok(o) /\ expect_zero(send_cmd_decode(o.raw))

mod_connect(o) == send_cmd_ok(o) /\ expect_zero(send_cmd_decode(o.raw))

(***************************************************************************)
(* Positions of the main thread                                             *)
(***************************************************************************)
Pos(p, a, b) == [ pc |-> p, i |-> a, j |-> b ]

Goto(pos) == pc' = pos.pc /\ i' = pos.i /\ j' = pos.j

SetupCmdPcs == { "add", "patch_set", "param_set", "bypass", "connect" }

TeardownCmdPcs == { "disconnect", "remove" }

CmdPcs == SetupCmdPcs \cup { "select" } \cup TeardownCmdPcs

\* positions before the try statement of the router loop
BeforeTryPcs ==
    { "scan" } \cup SetupCmdPcs
    \cup { "activate", "sync_find", "sync_connect", "sync_put", "sync_sleep",
           "sync_disconnect", "autoconnect" }

LoopPcs == { "loop", "select" }

FinalPcs == { "exit", "returned", "killed" }

\* for c in connections
EnterConnect(k) ==
    IF k <= Len(connections) THEN Pos("connect", k, 0) ELSE Pos("activate", 0, 0)

RECURSIVE EnterPlugin(_)
\* if "bypass" in p
EnterBypass(k) ==
    IF PluginOf(SortedIds[k]).bypass # "absent" THEN Pos("bypass", k, 0)
    ELSE EnterPlugin(k + 1)

\* for symbol, val in controls.items()
EnterControls(k, n) ==
    IF n <= Len(ControlsOf(SortedIds[k])) THEN Pos("param_set", k, n) ELSE EnterBypass(k)

\* for key, val in state.items()
EnterState(k, n) ==
    IF n <= Len(StateOf(SortedIds[k])) THEN Pos("patch_set", k, n) ELSE EnterControls(k, 1)

\* second loop: for sid in sorted(plugins.keys(), ...)
EnterPlugin(k) ==
    IF k <= Len(SortedIds) THEN EnterState(k, 1) ELSE EnterConnect(1)

\* first loop: for sid in sorted(plugins.keys(), ...)
EnterScan(k) ==
    IF k <= Len(SortedIds) THEN Pos("scan", k, 0) ELSE EnterPlugin(1)

\* for inst in piano_ids
EnterSelect(k) ==
    IF k <= Len(piano_ids) THEN Pos("select", k, 0) ELSE Pos("loop", 0, 0)

\* for inst in reversed(loaded_ids)
EnterRemove(k) ==
    IF k >= 1 THEN Pos("remove", k, 0) ELSE Pos("deactivate", 0, 0)

\* for src, dst in reversed(active_connections)
EnterDisconnect(k) ==
    IF k >= 1 THEN Pos("disconnect", k, 0) ELSE EnterRemove(Len(loaded_ids))

\* a selection that bypasses every member, the selected one included
bypass_val_all(inst, p) == TRUE

\* should_be_active = (inst == prog) ; bypass_val = False if should_be_active else True
bypass_val(inst, p) == ~(Some(inst) = p)

\* a teardown that walks active_connections in creation order
DisconnectTarget_forward == active_connections[Len(active_connections) + 1 - i]

\* the element of reversed(active_connections) reached at index i (i counts down)
DisconnectTarget == active_connections[i]

\* the element of reversed(loaded_ids) reached at index i (i counts down)
RemoveTarget == loaded_ids[i]

\* the command main() is about to send, or is sending, at its position
CurCmd ==
    CASE pc = "add" -> AddCmd(SortedIds[i])
      [] pc = "patch_set" ->
             PatchSetCmd(SortedIds[i], StateOf(SortedIds[i])[j][1], StateOf(SortedIds[i])[j][2])
      [] pc = "param_set" ->
             ParamSetCmd(SortedIds[i], ControlsOf(SortedIds[i])[j][1],
                         ControlsOf(SortedIds[i])[j][2])
      [] pc = "bypass" -> BypassCmd(SortedIds[i], PluginOf(SortedIds[i]).bypass = "true")
      [] pc = "connect" ->
             ConnectCmd(expand_port(connections[i].from), expand_port(connections[i].to))
      [] pc = "select" -> BypassCmd(piano_ids[i], bypass_val(piano_ids[i], prog))
      [] pc = "disconnect" -> DisconnectCmd(DisconnectTarget[1], DisconnectTarget[2])
      [] pc = "remove" -> RemoveCmd(RemoveTarget)

(***************************************************************************)
(* Initial state: the module-level objects are constructed, main() has      *)
(* read the document and is about to enter its first loop                   *)
(***************************************************************************)
NoLast ==
    [ op |-> "none", transport |-> FALSE, respOk |-> TRUE, raised |-> FALSE,
      printed |-> FALSE ]

InitWith(docs, batchSet, cycles, faults, sigs) ==
    /\ \E d \in docs : plugins = d.plugins /\ connections = d.connections
    /\ batches = batchSet
    /\ cycLeft = cycles
    /\ faultLeft = faults
    /\ sigLeft = sigs
    /\ pc = EnterScan(1).pc
    /\ i = EnterScan(1).i
    /\ j = EnterScan(1).j
    /\ sending = FALSE
    /\ openSocks = 0
    /\ piano_ids = << >>
    /\ active_piano = None
    /\ loaded_ids = << >>
    /\ active_connections = << >>
    /\ last_prog = None
    /\ data = << >>
    /\ prog = None
    /\ event_q = << >>
    /\ send_q = << >>
    /\ hostInst = [ k \in { e.sid : e \in Range(plugins) } |-> "absent" ]
    /\ jackState = "inactive"
    /\ outConnected = FALSE
    /\ outWritten = << >>
    /\ setupLog = << >>
    /\ selLog = << >>
    /\ selOk = TRUE
    /\ tearLog = << >>
    /\ tearFailed = 0
    /\ last = NoLast
    /\ prevPC = None
    /\ prevGap = FALSE
    /\ sigAt = << >>

\* no helper has been called on its own
NoRet ==
    [ fn |-> "none", what |-> "", resp |-> << >>, raised |-> FALSE, message |-> << >>,
      value |-> << >>, calls |-> 0 ]

\* load.py is not run
NoLoad ==
    [ pc |-> "none", i |-> 0, j |-> 0, piano_ids |-> << >>, active_piano |-> None,
      last_prog |-> None, prog |-> None, setup |-> << >>, round |-> << >>, taken |-> 0,
      sent |-> << >> ]

NoCall == arg = << >> /\ ret = NoRet /\ load = NoLoad

\* the program as shipped
Shipped == filter_channel = FILTER_CHANNEL

Init == InitWith(Docs, SessionBatches, MaxCycles, MaxFaults, MaxInterrupts) /\ NoCall /\ Shipped

(***************************************************************************)
(* send_cmd                                                                 *)
(***************************************************************************)
\* the command is recorded in the log of the phase that issues it
LogIssue(cmd) ==
    /\ setupLog' = IF pc \in SetupCmdPcs THEN Append(setupLog, cmd) ELSE setupLog
    /\ selLog' = IF pc = "select" THEN Append(selLog, cmd) ELSE selLog
    /\ tearLog' = IF pc \in TeardownCmdPcs THEN Append(tearLog, cmd) ELSE tearLog

\* socket.create_connection succeeds: the command's connection is open
SendCmdConnect ==
    /\ pc \in CmdPcs
    /\ ~sending
    /\ sending' = TRUE
    /\ openSocks' = openSocks + 1
    /\ LogIssue(CurCmd)
    /\ last' = NoLast
    /\ UNCHANGED << inputVars, helperVars, faultLeft, sigLeft, sigAt, pc, i, j, sessionVars,
                    routerVars, callbackVars, hostInst, jackVars, ghostVars >>

\* the rest of send_cmd: either create_connection fails (nothing was open), or the
\* command is written, the write side shut down, the reply read to EOF and the
\* socket closed by the with statement
SendCmdFinish(o) ==
    /\ \/ /\ sending
          /\ o \in SentOutcomes(CurCmd)
          /\ openSocks' = openSocks - 1
          /\ UNCHANGED logVars
       \/ /\ ~sending
          /\ o = Refused
          /\ LogIssue(CurCmd)
          /\ UNCHANGED openSocks
    /\ IsFault(CurCmd, o) => faultLeft > 0
    /\ faultLeft' = IF IsFault(CurCmd, o) THEN faultLeft - 1 ELSE faultLeft
    /\ sending' = FALSE
    /\ hostInst' = IF o.applied THEN HostApply(CurCmd) ELSE hostInst

CmdOutcomes == SentOutcomes(CurCmd) \cup { Refused }

\* what a completed step leaves behind: its operation, whether send_cmd met a
\* transport error, whether the reply was a success under the operation's policy,
\* whether the call raised, and whether the handler printed a failure line
Done(o, respOk, raised, printed) ==
    [ op |-> CurCmd.op, transport |-> ~send_cmd_ok(o), respOk |-> respOk,
      raised |-> raised, printed |-> printed ]

(***************************************************************************)
(* Setup                                                                    *)
(***************************************************************************)
\* first loop, before mod_add: collect the sfizz instances
Scan ==
    /\ pc = "scan"
    /\ piano_ids' = IF PluginOf(SortedIds[i]).uri = SFIZZ_URI
                    THEN Append(piano_ids, SortedIds[i])
                    ELSE piano_ids
    /\ pc' = "add"
    /\ last' = NoLast
    /\ UNCHANGED << inputVars, helperVars, faultLeft, sigLeft, sigAt, i, j, sock, active_piano,
                    loaded_ids, active_connections, routerVars, callbackVars, hostInst,
                    jackVars, logVars, ghostVars >>

AddDone ==
    /\ pc = "add"
    /\ \E o \in CmdOutcomes :
         /\ SendCmdFinish(o)
         /\ loaded_ids' = IF mod_add(o) THEN Append(loaded_ids, SortedIds[i]) ELSE loaded_ids
         /\ last' = Done(o, mod_add(o), ~mod_add(o), ~mod_add(o))
    /\ Goto(EnterScan(i + 1))
    /\ UNCHANGED << inputVars, helperVars, sigLeft, sigAt, piano_ids, active_piano,
                    active_connections, routerVars, callbackVars, jackVars, ghostVars >>

PatchSetDone ==
    /\ pc = "patch_set"
    /\ \E o \in CmdOutcomes :
         /\ SendCmdFinish(o)
         /\ last' = Done(o, mod_patch_set(o), ~mod_patch_set(o), ~mod_patch_set(o))
    /\ Goto(EnterState(i, j + 1))
    /\ UNCHANGED << inputVars, helperVars, sigLeft, sigAt, sessionVars, routerVars, callbackVars,
                    jackVars, ghostVars >>

ParamSetDone ==
    /\ pc = "param_set"
    /\ \E o \in CmdOutcomes :
         /\ SendCmdFinish(o)
         /\ last' = Done(o, mod_param_set(o), ~mod_param_set(o), ~mod_param_set(o))
    /\ Goto(EnterControls(i, j + 1))
    /\ UNCHANGED << inputVars, helperVars, sigLeft, sigAt, sessionVars, routerVars, callbackVars,
                    jackVars, ghostVars >>

BypassDone ==
    /\ pc = "bypass"
    /\ \E o \in CmdOutcomes :
         /\ SendCmdFinish(o)
         /\ active_piano' =
                IF /\ mod_bypass(o)
                   /\ PluginOf(SortedIds[i]).bypass = "false"
                   /\ SortedIds[i] \in Range(piano_ids)
                THEN Some(SortedIds[i])
                ELSE active_piano
         /\ last' = Done(o, mod_bypass(o), ~mod_bypass(o), ~mod_bypass(o))
    /\ Goto(EnterPlugin(i + 1))
    /\ UNCHANGED << inputVars, helperVars, sigLeft, sigAt, piano_ids, loaded_ids, active_connections,
                    routerVars, callbackVars, jackVars, ghostVars >>

\* a connect loop that records the connection whether or not mod_connect raised
ConnectDone_recordAll ==
    /\ pc = "connect"
    /\ \E o \in CmdOutcomes :
         /\ SendCmdFinish(o)
         /\ active_connections' = Append(active_connections, << CurCmd.src, CurCmd.dst >>)
         /\ last' = Done(o, mod_connect(o), ~mod_connect(o), ~mod_connect(o))
    /\ Goto(EnterConnect(i + 1))
    /\ UNCHANGED << inputVars, helperVars, sigLeft, sigAt, piano_ids, active_piano, loaded_ids,
                    routerVars, callbackVars, jackVars, ghostVars >>

ConnectDone ==
    /\ pc = "connect"
    /\ \E o \in CmdOutcomes :
         /\ SendCmdFinish(o)
         /\ active_connections' =
                IF mod_connect(o)
                THEN Append(active_connections, << CurCmd.src, CurCmd.dst >>)
                ELSE active_connections
         /\ last' = Done(o, mod_connect(o), ~mod_connect(o), ~mod_connect(o))
    /\ Goto(EnterConnect(i + 1))
    /\ UNCHANGED << inputVars, helperVars, sigLeft, sigAt, piano_ids, active_piano, loaded_ids,
                    routerVars, callbackVars, jackVars, ghostVars >>

(***************************************************************************)
(* JACK activation and the SL88 sync                                        *)
(***************************************************************************)
\* client.activate(): on failure main() prints and returns
Activate ==
    /\ pc = "activate"
    /\ \/ /\ jackState' = "active"
          /\ pc' = IF active_piano # None THEN "sync_find" ELSE "autoconnect"
          /\ UNCHANGED faultLeft
       \/ /\ faultLeft > 0
          /\ faultLeft' = faultLeft - 1
          /\ pc' = "returned"
          /\ UNCHANGED jackState
    /\ last' = NoLast
    /\ UNCHANGED << inputVars, helperVars, sigLeft, sigAt, i, j, sock, sessionVars, routerVars,
                    callbackVars, hostInst, outConnected, logVars, ghostVars >>

\* sl_dest = client.get_port_by_name("system:midi_playback_1")
SyncFind ==
    /\ pc = "sync_find"
    /\ \/ pc' = "sync_connect" /\ UNCHANGED faultLeft
       \/ faultLeft > 0 /\ faultLeft' = faultLeft - 1 /\ pc' = "autoconnect"
    /\ last' = NoLast
    /\ UNCHANGED << inputVars, helperVars, sigLeft, sigAt, i, j, sock, sessionVars, routerVars,
                    callbackVars, hostInst, jackVars, logVars, ghostVars >>

\* client.connect(out_port, sl_dest)
SyncConnect ==
    /\ pc = "sync_connect"
    /\ \/ outConnected' = TRUE /\ pc' = "sync_put" /\ UNCHANGED faultLeft
       \/ /\ faultLeft > 0
          /\ faultLeft' = faultLeft - 1
          /\ pc' = "autoconnect"
          /\ UNCHANGED outConnected
    /\ last' = NoLast
    /\ UNCHANGED << inputVars, helperVars, sigLeft, sigAt, i, j, sock, sessionVars, routerVars,
                    callbackVars, hostInst, jackState, logVars, ghostVars >>

\* status = 0xC0 | (COMMON_CHANNEL - 1) ; msg_bytes = bytes([status, active_piano])
SyncMsg == << 192 + ((COMMON_CHANNEL - 1) % 16), active_piano[1] >>

\* send_q.put(msg_bytes); bytes() raises ValueError for a value outside 0..255
SyncPut ==
    /\ pc = "sync_put"
    /\ IF active_piano[1] \in 0..255
       THEN /\ Len(send_q) < SEND_Q_MAXSIZE
            /\ send_q' = Append(send_q, SyncMsg)
            /\ pc' = "sync_sleep"
       ELSE /\ pc' = "autoconnect"
            /\ UNCHANGED send_q
    /\ last' = NoLast
    /\ UNCHANGED << inputVars, helperVars, faultLeft, sigLeft, sigAt, i, j, sock, sessionVars,
                    routerVars, event_q, outWritten, cycLeft, hostInst, jackVars, logVars, ghostVars >>

\* a sync that goes on to the listener without the disconnect
SyncSleep_noDisconnect ==
    /\ pc = "sync_sleep"
    /\ pc' = "autoconnect"
    /\ last' = NoLast
    /\ UNCHANGED << inputVars, helperVars, faultLeft, sigLeft, sigAt, i, j, sock, sessionVars,
                    routerVars, callbackVars, hostInst, jackVars, logVars, ghostVars >>

\* time.sleep(1.0)
SyncSleep ==
    /\ pc = "sync_sleep"
    /\ pc' = "sync_disconnect"
    /\ last' = NoLast
    /\ UNCHANGED << inputVars, helperVars, faultLeft, sigLeft, sigAt, i, j, sock, sessionVars,
                    routerVars, callbackVars, hostInst, jackVars, logVars, ghostVars >>

\* client.disconnect(out_port, sl_dest), a failure is only warned about
SyncDisconnect ==
    /\ pc = "sync_disconnect"
    /\ \/ outConnected' = FALSE /\ UNCHANGED faultLeft
       \/ faultLeft > 0 /\ faultLeft' = faultLeft - 1 /\ UNCHANGED outConnected
    /\ pc' = "autoconnect"
    /\ last' = NoLast
    /\ UNCHANGED << inputVars, helperVars, sigLeft, sigAt, i, j, sock, sessionVars, routerVars,
                    callbackVars, hostInst, jackState, logVars, ghostVars >>

\* auto-connect of TARGET_PORT to the input port; a JackError is printed
AutoConnect ==
    /\ pc = "autoconnect"
    /\ pc' = "loop"
    /\ last_prog' = None
    /\ last' = NoLast
    /\ UNCHANGED << inputVars, helperVars, faultLeft, sigLeft, sigAt, i, j, sock, sessionVars, data,
                    prog, prevPC, selOk, callbackVars, hostInst, jackVars, logVars, ghostVars >>

(***************************************************************************)
(* The process callback (JACK's real-time thread)                           *)
(***************************************************************************)
\* a queue without a capacity
Full_never(n) == FALSE

\* queue.Queue(maxsize=2048): a put finds the queue full when qsize() >= maxsize
Full(n) == n >= EVENT_Q_MAXSIZE

\* for offset, data in in_port.incoming_midi_events():
\*     try: event_q.put_nowait(bytes(data)) except queue.Full: pass
\* The events of the batch that are queued, when the queue holds n events at the
\* start; the batch is walked in order, by halves.
RECURSIVE Accepted(_, _)
Accepted(n, batch) ==
    IF batch = << >> THEN << >>
    ELSE IF Len(batch) = 1 THEN (IF Full(n) THEN << >> ELSE batch)
    ELSE LET h == Len(batch) \div 2
             a == Accepted(n, SubSeq(batch, 1, h))
         IN  a \o Accepted(n + Len(a), SubSeq(batch, h + 1, Len(batch)))

\* a queue whose put places the event ahead of the waiting ones
PutAll_front(q, batch) == Accepted(Len(q), batch) \o q

PutAll(q, batch) == q \o Accepted(Len(q), batch)

\* a processing cycle that writes send_q out without taking the messages off it
Process_peek ==
    /\ jackState = "active"
    /\ pc \notin FinalPcs
    /\ \E batch \in batches :
         /\ IF batch = << >> THEN send_q # << >> /\ outWritten = << >> ELSE cycLeft > 0
         /\ event_q' = PutAll(event_q, batch)
         /\ cycLeft' = IF batch = << >> THEN cycLeft ELSE cycLeft - 1
    /\ outWritten' = outWritten \o [ k \in 1..Len(send_q) |-> << send_q[k], outConnected >> ]
    /\ UNCHANGED << inputVars, helperVars, faultLeft, sigLeft, sigAt, pc, i, j, sock, sessionVars,
                    routerVars, hostInst, jackVars, logVars, last, ghostVars, send_q >>

\* one processing cycle: queue the incoming events, then write out all of send_q
Process ==
    /\ jackState = "active"
    /\ pc \notin FinalPcs
    /\ \E batch \in batches :
         /\ IF batch = << >> THEN send_q # << >> ELSE cycLeft > 0
         /\ event_q' = PutAll(event_q, batch)
         /\ cycLeft' = IF batch = << >> THEN cycLeft ELSE cycLeft - 1
    /\ outWritten' = outWritten \o [ k \in 1..Len(send_q) |-> << send_q[k], outConnected >> ]
    /\ send_q' = << >>
    /\ UNCHANGED << inputVars, helperVars, faultLeft, sigLeft, sigAt, pc, i, j, sock, sessionVars,
                    routerVars, hostInst, jackVars, logVars, last, ghostVars >>

(***************************************************************************)
(* The router loop                                                          *)
(***************************************************************************)
\* a router without the debounce
Debounced_never(p, lp) == FALSE

\* if prog == last_prog: continue
Debounced(p, lp) == Some(p) = lp

\* a router that ignores the setting of FILTER_CHANNEL
Filtered_never(msg) == FALSE

\* if FILTER_CHANNEL is not None and msg.channel != FILTER_CHANNEL: continue
Filtered(msg) == filter_channel # None /\ Some(msg.channel) # filter_channel

\* a router that takes every program for a member
IsMember_any(p) == TRUE

\* if prog in piano_ids
IsMember(p) == p \in Range(piano_ids)

IsProgramChange(ev) ==
    decode_mido(ev) # None /\ decode_mido(ev)[1].type = "program_change"

\* a router that remembers only the programs of members as the last program
RouterGet_membersOnly ==
    /\ pc = "loop"
    /\ event_q # << >>
    /\ data' = Head(event_q)
    /\ event_q' = Tail(event_q)
    /\ prevPC' = IF IsProgramChange(data) THEN Some(decode_mido(data)[1].program) ELSE prevPC
    /\ prevGap' = (data # << >> /\ ~IsProgramChange(data))
    /\ selLog' = << >>
    /\ selOk' = TRUE
    /\ LET msg == decode_mido(Head(event_q))
       IN  IF msg = None \/ msg[1].type # "program_change" \/ Filtered(msg[1])
           THEN /\ UNCHANGED << last_prog, prog >>
                /\ Goto(Pos("loop", 0, 0))
           ELSE /\ prog' = Some(msg[1].program)
                /\ IF Debounced(msg[1].program, last_prog)
                   THEN /\ UNCHANGED last_prog
                        /\ Goto(Pos("loop", 0, 0))
                   ELSE /\ last_prog' = IF IsMember(msg[1].program)
                                         THEN Some(msg[1].program)
                                         ELSE last_prog
                        /\ IF IsMember(msg[1].program)
                           THEN Goto(EnterSelect(1))
                           ELSE Goto(Pos("loop", 0, 0))
    /\ last' = NoLast
    /\ UNCHANGED << inputVars, helperVars, faultLeft, sigLeft, sigAt, sock, sessionVars, send_q,
                    outWritten, cycLeft, hostInst, jackVars, setupLog, tearLog, tearFailed >>

\* data = event_q.get(timeout=1.0) returned an event: one iteration up to the for loop
RouterGet ==
    /\ pc = "loop"
    /\ event_q # << >>
    /\ data' = Head(event_q)
    /\ event_q' = Tail(event_q)
    /\ prevPC' = IF IsProgramChange(data) THEN Some(decode_mido(data)[1].program) ELSE prevPC
    /\ prevGap' = (data # << >> /\ ~IsProgramChange(data))
    /\ selLog' = << >>
    /\ selOk' = TRUE
    /\ LET msg == decode_mido(Head(event_q))
       IN  IF msg = None \/ msg[1].type # "program_change" \/ Filtered(msg[1])
           THEN /\ UNCHANGED << last_prog, prog >>
                /\ Goto(Pos("loop", 0, 0))
           ELSE /\ prog' = Some(msg[1].program)
                /\ IF Debounced(msg[1].program, last_prog)
                   THEN /\ UNCHANGED last_prog
                        /\ Goto(Pos("loop", 0, 0))
                   ELSE /\ last_prog' = Some(msg[1].program)
                        /\ IF IsMember(msg[1].program)
                           THEN Goto(EnterSelect(1))
                           ELSE Goto(Pos("loop", 0, 0))
    /\ last' = NoLast
    /\ UNCHANGED << inputVars, helperVars, faultLeft, sigLeft, sigAt, sock, sessionVars, send_q,
                    outWritten, cycLeft, hostInst, jackVars, setupLog, tearLog, tearFailed >>

\* event_q.get(timeout=1.0) raised queue.Empty: continue
RouterTimeout ==
    /\ pc = "loop"
    /\ event_q = << >>
    /\ last' = NoLast
    /\ UNCHANGED << inputVars, helperVars, faultLeft, sigLeft, sigAt, pc, i, j, sock, sessionVars,
                    routerVars, callbackVars, hostInst, jackVars, logVars, ghostVars >>

\* a selection that stops at the first member whose command fails
SelectDone_break ==
    /\ pc = "select"
    /\ \E o \in CmdOutcomes :
         /\ SendCmdFinish(o)
         /\ selOk' = (selOk /\ mod_bypass(o))
         /\ last' = Done(o, mod_bypass(o), ~mod_bypass(o), ~mod_bypass(o))
         /\ IF mod_bypass(o) THEN Goto(EnterSelect(i + 1)) ELSE Goto(Pos("loop", 0, 0))
    /\ UNCHANGED << inputVars, helperVars, sigLeft, sigAt, sessionVars, last_prog, data, prog, prevPC,
                    callbackVars, jackVars, ghostVars >>

\* a selection that forgets the program when one of its commands fails
SelectDone_rollback ==
    /\ pc = "select"
    /\ \E o \in CmdOutcomes :
         /\ SendCmdFinish(o)
         /\ selOk' = (selOk /\ mod_bypass(o))
         /\ last' = Done(o, mod_bypass(o), ~mod_bypass(o), ~mod_bypass(o))
         /\ last_prog' = IF mod_bypass(o) THEN last_prog ELSE None
    /\ Goto(EnterSelect(i + 1))
    /\ UNCHANGED << inputVars, helperVars, sigLeft, sigAt, sessionVars, data, prog, prevPC,
                    callbackVars, jackVars, ghostVars >>

\* one pass of `for inst in piano_ids`: mod_bypass, a failure is printed
SelectDone ==
    /\ pc = "select"
    /\ \E o \in CmdOutcomes :
         /\ SendCmdFinish(o)
         /\ selOk' = (selOk /\ mod_bypass(o))
         /\ last' = Done(o, mod_bypass(o), ~mod_bypass(o), ~mod_bypass(o))
    /\ Goto(EnterSelect(i + 1))
    /\ UNCHANGED << inputVars, helperVars, sigLeft, sigAt, sessionVars, last_prog, data, prog, prevPC,
                    callbackVars, jackVars, ghostVars >>

(***************************************************************************)
(* Teardown (the finally block)                                             *)
(***************************************************************************)
\* send_cmd(f'disconnect ...') : only an exception of send_cmd is printed
DisconnectDone ==
    /\ pc = "disconnect"
    /\ \E o \in CmdOutcomes :
         /\ SendCmdFinish(o)
         /\ last' = Done(o, send_cmd_ok(o) /\ expect_zero(send_cmd_decode(o.raw)),
                         ~send_cmd_ok(o), ~send_cmd_ok(o))
         /\ tearFailed' = IF send_cmd_ok(o) /\ expect_zero(send_cmd_decode(o.raw))
                          THEN tearFailed
                          ELSE tearFailed + 1
    /\ Goto(EnterDisconnect(i - 1))
    /\ UNCHANGED << inputVars, helperVars, sigLeft, sigAt, sessionVars, routerVars, callbackVars,
                    jackVars, prevGap >>

\* a removal loop that gives up at the first transport error
RemoveDone_abort ==
    /\ pc = "remove"
    /\ \E o \in CmdOutcomes :
         /\ SendCmdFinish(o)
         /\ last' = Done(o, send_cmd_ok(o) /\ expect_zero(send_cmd_decode(o.raw)),
                         ~send_cmd_ok(o), ~send_cmd_ok(o))
         /\ tearFailed' = IF send_cmd_ok(o) /\ expect_zero(send_cmd_decode(o.raw))
                          THEN tearFailed
                          ELSE tearFailed + 1
         /\ IF send_cmd_ok(o) THEN Goto(EnterRemove(i - 1)) ELSE Goto(Pos("deactivate", 0, 0))
    /\ UNCHANGED << inputVars, helperVars, sigLeft, sigAt, sessionVars, routerVars, callbackVars,
                    jackVars, prevGap >>

\* send_cmd(f"remove {inst}") : only an exception of send_cmd is printed
RemoveDone ==
    /\ pc = "remove"
    /\ \E o \in CmdOutcomes :
         /\ SendCmdFinish(o)
         /\ last' = Done(o, send_cmd_ok(o) /\ expect_zero(send_cmd_decode(o.raw)),
                         ~send_cmd_ok(o), ~send_cmd_ok(o))
         /\ tearFailed' = IF send_cmd_ok(o) /\ expect_zero(send_cmd_decode(o.raw))
                          THEN tearFailed
                          ELSE tearFailed + 1
    /\ Goto(EnterRemove(i - 1))
    /\ UNCHANGED << inputVars, helperVars, sigLeft, sigAt, sessionVars, routerVars, callbackVars,
                    jackVars, prevGap >>

\* the process has ended: its threads and its queues are gone
ProcessEnds ==
    /\ event_q' = << >>
    /\ send_q' = << >>
    /\ UNCHANGED << outWritten, cycLeft >>

DeactivateStep == Cmd("deactivate", 0, 0, "", "", NoPort, NoPort)

CloseStep == Cmd("close", 0, 0, "", "", NoPort, NoPort)

\* try: client.deactivate() except: pass
Deactivate ==
    /\ pc = "deactivate"
    /\ tearLog' = Append(tearLog, DeactivateStep)
    /\ \/ jackState' = "inactive" /\ UNCHANGED faultLeft
       \/ faultLeft > 0 /\ faultLeft' = faultLeft - 1 /\ UNCHANGED jackState
    /\ pc' = "close"
    /\ last' = NoLast
    /\ UNCHANGED << inputVars, helperVars, sigLeft, sigAt, i, j, sock, sessionVars, routerVars,
                    callbackVars, hostInst, outConnected, setupLog, selLog, ghostVars >>

\* try: client.close() except: pass ; main() returns
Close ==
    /\ pc = "close"
    /\ tearLog' = Append(tearLog, CloseStep)
    /\ \/ jackState' = "closed" /\ UNCHANGED faultLeft
       \/ faultLeft > 0 /\ faultLeft' = faultLeft - 1 /\ UNCHANGED jackState
    /\ pc' = "exit"
    /\ last' = NoLast
    /\ UNCHANGED << inputVars, helperVars, sigLeft, sigAt, i, j, sock, sessionVars, routerVars,
                    hostInst, outConnected, setupLog, selLog, ghostVars >>
    /\ ProcessEnds

(***************************************************************************)
(* KeyboardInterrupt, raised in the main thread wherever it is              *)
(***************************************************************************)
\* a send_cmd whose socket is not closed when an exception passes through it
Unwind_leak ==
    /\ sending' = FALSE
    /\ UNCHANGED openSocks
    /\ IF sending /\ HostCan(CurCmd)
       THEN hostInst' \in { hostInst, HostApply(CurCmd) }
       ELSE UNCHANGED hostInst

\* the with statement of send_cmd closes the socket as the exception passes; a
\* command already written may or may not have been carried out by the host
Unwind ==
    /\ sending' = FALSE
    /\ openSocks' = IF sending THEN openSocks - 1 ELSE openSocks
    /\ IF sending /\ HostCan(CurCmd)
       THEN hostInst' \in { hostInst, HostApply(CurCmd) }
       ELSE UNCHANGED hostInst

Signal ==
    /\ sigLeft > 0
    /\ sigLeft' = sigLeft - 1
    /\ sigAt' = Append(sigAt, << pc, sending >>)
    /\ last' = NoLast

\* before the try statement nothing catches it: the process dies with a traceback
InterruptSetup ==
    /\ pc \in BeforeTryPcs
    /\ Signal
    /\ Unwind
    /\ pc' = "killed"
    /\ UNCHANGED << inputVars, helperVars, faultLeft, i, j, sessionVars, routerVars,
                    jackVars, logVars, ghostVars >>
    /\ ProcessEnds

\* inside the try statement: except KeyboardInterrupt, then the finally block
InterruptLoop ==
    /\ pc \in LoopPcs
    /\ Signal
    /\ Unwind
    /\ Goto(EnterDisconnect(Len(active_connections)))
    /\ UNCHANGED << inputVars, helperVars, faultLeft, sessionVars, routerVars, callbackVars,
                    jackVars, logVars, ghostVars >>

\* inside the finally block the handlers are `except Exception`, which does not
\* catch KeyboardInterrupt: it leaves the finally block and main()
InterruptTeardown ==
    /\ pc \in TeardownCmdPcs \cup { "deactivate", "close" }
    /\ Signal
    /\ Unwind
    /\ pc' = "killed"
    /\ UNCHANGED << inputVars, helperVars, faultLeft, i, j, sessionVars, routerVars,
                    jackVars, logVars, ghostVars >>
    /\ ProcessEnds

\* inside client.deactivate() / client.close() the bare except swallows it
InterruptCleanup ==
    /\ pc \in { "deactivate", "close" }
    /\ Signal
    /\ tearLog' = Append(tearLog, IF pc = "deactivate" THEN DeactivateStep ELSE CloseStep)
    /\ pc' = IF pc = "deactivate" THEN "close" ELSE "exit"
    /\ UNCHANGED << inputVars, helperVars, faultLeft, i, j, sock, sessionVars, routerVars,
                    hostInst, jackVars, setupLog, selLog, ghostVars >>
    /\ IF pc = "close" THEN ProcessEnds ELSE UNCHANGED callbackVars

(***************************************************************************)
(* Specification                                                            *)
(***************************************************************************)
Next ==
    \/ Scan
    \/ SendCmdConnect
    \/ AddDone
    \/ PatchSetDone
    \/ ParamSetDone
    \/ BypassDone
    \/ ConnectDone
    \/ Activate
    \/ SyncFind
    \/ SyncConnect
    \/ SyncPut
    \/ SyncSleep
    \/ SyncDisconnect
    \/ AutoConnect
    \/ Process
    \/ RouterGet
    \/ RouterTimeout
    \/ SelectDone
    \/ DisconnectDone
    \/ RemoveDone
    \/ Deactivate
    \/ Close
    \/ InterruptSetup
    \/ InterruptLoop
    \/ InterruptTeardown
    \/ InterruptCleanup

\* session scenarios: many documents, little MIDI input
Spec == Init /\ [][Next]_vars

\* the steps of a run that no interrupt signal reaches: main() never leaves the
\* router loop
NextRunning ==
    \/ Scan
    \/ SendCmdConnect
    \/ AddDone
    \/ PatchSetDone
    \/ ParamSetDone
    \/ BypassDone
    \/ ConnectDone
    \/ Activate
    \/ SyncFind
    \/ SyncConnect
    \/ SyncPut
    \/ SyncSleep
    \/ SyncDisconnect
    \/ AutoConnect
    \/ Process
    \/ RouterGet
    \/ RouterTimeout
    \/ SelectDone

\* routing scenarios: one document, more MIDI input, no interrupt signal
InitRoute == InitWith(RouteDocs, Batches, MaxRouteCycles, MaxRouteFaults, 0) /\ NoCall /\ Shipped

SpecRoute == InitRoute /\ [][NextRunning]_vars

\* queue-pressure scenarios: bursts larger than the router drains, no faults and no
\* interrupt signal
InitBurst == InitWith(BurstDocs, BurstBatches, MaxBurstCycles, 0, 0) /\ NoCall /\ Shipped

SpecBurst == InitBurst /\ [][NextRunning]_vars

\* settings of FILTER_CHANNEL: none, a channel the device does not send on, and the
\* channel it sends on
FilterChannels == { None, Some(0), Some(1) }

InitFilter ==
    /\ InitWith(RouteDocs, Batches, MaxRouteCycles, MaxRouteFaults, 0)
    /\ NoCall
    /\ filter_channel \in FilterChannels

\* routing scenarios with a configured channel filter
SpecFilter == InitFilter /\ [][NextRunning]_vars

\* instance ids a document may use as keys of its plugins: ids of the seven-bit range,
\* of the byte range beyond it, and beyond a byte
InstanceIds == { 10, 127, 128, 200, 300 }

\* documents with a single instrument, flagged as not bypassed
IdDocs ==
    { Doc(<< Entry(id, Plugin(SFIZZ_URI, << << "k", "v" >> >>, << << "gain", "1" >> >>,
                              "false")) >>,
          << Conn(P10, PSysOut) >>) : id \in InstanceIds }

InitIds ==
    /\ InitWith(IdDocs, { << >>, << << 193, 10 >> >> }, 1, 0, 0)
    /\ NoCall
    /\ Shipped

\* instance-id scenarios: one instrument whose id varies, no interrupt signal
SpecIds == InitIds /\ [][NextRunning]_vars

(***************************************************************************)
(* load.py, run next to load_single.py on the same document, with the same  *)
(* replies of the host and the same events from the device. Its helpers,    *)
(* its callback and decode_mido are those of load_single.py; its main()     *)
(* keeps its own position, lists and debounce state in `load`.              *)
(***************************************************************************)
\* load.py has read the document and is about to enter its first loop
LoadStart ==
    [ NoLoad EXCEPT !.pc = EnterScan(1).pc, !.i = EnterScan(1).i, !.j = EnterScan(1).j ]

LoadGoto(l, pos) == [ l EXCEPT !.pc = pos.pc, !.i = pos.i, !.j = pos.j ]

LoadSetupPcs == { "scan", "patch_set", "param_set", "bypass", "connect" }

\* for inst in piano_ids
LoadEnterSelect(k) ==
    IF k <= Len(load.piano_ids) THEN Pos("select", k, 0) ELSE Pos("loop", 0, 0)

\* the command load.py sends at its position
LoadCmd ==
    CASE load.pc = "scan" -> AddCmd(SortedIds[load.i])
      [] load.pc = "patch_set" ->
             PatchSetCmd(SortedIds[load.i], StateOf(SortedIds[load.i])[load.j][1],
                         StateOf(SortedIds[load.i])[load.j][2])
      [] load.pc = "param_set" ->
             ParamSetCmd(SortedIds[load.i], ControlsOf(SortedIds[load.i])[load.j][1],
                         ControlsOf(SortedIds[load.i])[load.j][2])
      [] load.pc = "bypass" ->
             BypassCmd(SortedIds[load.i], PluginOf(SortedIds[load.i]).bypass = "true")
      [] load.pc = "connect" ->
             ConnectCmd(expand_port(connections[load.i].from),
                        expand_port(connections[load.i].to))
      [] load.pc = "select" ->
             BypassCmd(load.piano_ids[load.i],
                       ~(Some(load.piano_ids[load.i]) = load.prog))

\* the setup commands of load_single.py that the host has answered
Answered == Len(setupLog) - (IF sending /\ pc \in SetupCmdPcs THEN 1 ELSE 0)

\* the events load_single.py's router has taken off its queue: each cycle with input
\* delivers one event, and the queue has room for all of them
Dequeued == (MaxRouteCycles - cycLeft) - Len(event_q)

\* the host has answered load_single.py a setup command that load.py has not sent
\* yet: load.py sends its next command and gets the same answer, held in `last`
Behind == Len(load.setup) < Answered

\* load.py has had every reply and every event that load_single.py has had, and is
\* not in the middle of a selection
Paced ==
    /\ Len(load.setup) = Answered
    /\ load.taken = Dequeued
    /\ load.pc # "select"

\* first loop: piano_ids.append(inst) for an sfizz instance, then mod_add; a failure
\* is printed
LoadAdd ==
    /\ load.pc = "scan"
    /\ Behind
    /\ load' = LoadGoto([ load EXCEPT
                            !.piano_ids = IF PluginOf(SortedIds[load.i]).uri = SFIZZ_URI
                                          THEN Append(@, SortedIds[load.i])
                                          ELSE @,
                            !.setup = Append(@, LoadCmd) ],
                        EnterScan(load.i + 1))
    /\ UNCHANGED singleVars

\* second loop: mod_patch_set for an item of state, mod_param_set for an item of
\* controls; a failure is printed
LoadSet ==
    /\ load.pc \in { "patch_set", "param_set" }
    /\ Behind
    /\ load' = LoadGoto([ load EXCEPT !.setup = Append(@, LoadCmd) ],
                        IF load.pc = "patch_set"
                        THEN EnterState(load.i, load.j + 1)
                        ELSE EnterControls(load.i, load.j + 1))
    /\ UNCHANGED singleVars

\* if "bypass" in p: mod_bypass, and active_piano = inst after a successful
\* `bypass <inst> 0` of a member
LoadBypass ==
    /\ load.pc = "bypass"
    /\ Behind
    /\ load' = LoadGoto([ load EXCEPT
                            !.active_piano =
                                IF /\ last.respOk
                                   /\ PluginOf(SortedIds[load.i]).bypass = "false"
                                   /\ SortedIds[load.i] \in Range(load.piano_ids)
                                THEN Some(SortedIds[load.i])
                                ELSE @,
                            !.setup = Append(@, LoadCmd) ],
                        EnterPlugin(load.i + 1))
    /\ UNCHANGED singleVars

\* for c in connections: mod_connect; a failure is printed
LoadConnect ==
    /\ load.pc = "connect"
    /\ Behind
    /\ load' = LoadGoto([ load EXCEPT !.setup = Append(@, LoadCmd) ],
                        EnterConnect(load.i + 1))
    /\ UNCHANGED singleVars

\* sync_sl88(active_piano) through a client of its own, which writes the Program
\* Change once (bytes() raises ValueError beyond 255, which sync_sl88 prints), then
\* client.activate() and the connection of the input port
LoadSync ==
    /\ load.pc = "activate"
    /\ jackState = "active"
    /\ load' = [ load EXCEPT
                   !.pc = "loop",
                   !.sent = IF load.active_piano # None /\ load.active_piano[1] \in 0..255
                            THEN << << 192 + ((COMMON_CHANNEL - 1) % 16),
                                       load.active_piano[1] >> >>
                            ELSE << >> ]
    /\ UNCHANGED singleVars

\* data = event_q.get(timeout=1.0) returned the event that load_single.py's router
\* has taken: one iteration up to the for loop
LoadGet ==
    /\ load.pc = "loop"
    /\ load.taken < Dequeued
    /\ LET msg == decode_mido(data)
           took == [ load EXCEPT !.taken = @ + 1, !.round = << >> ]
       IN  IF msg = None \/ msg[1].type # "program_change" \/ Filtered(msg[1])
           THEN load' = took
           ELSE IF Debounced(msg[1].program, load.last_prog)
                THEN load' = [ took EXCEPT !.prog = Some(msg[1].program) ]
                ELSE load' =
                         LoadGoto([ took EXCEPT !.prog = Some(msg[1].program),
                                                !.last_prog = Some(msg[1].program) ],
                                  IF msg[1].program \in Range(load.piano_ids)
                                  THEN LoadEnterSelect(1)
                                  ELSE Pos("loop", 0, 0))
    /\ UNCHANGED singleVars

\* one pass of `for inst in piano_ids`: mod_bypass, a failure is printed
LoadSelect ==
    /\ load.pc = "select"
    /\ load' = LoadGoto([ load EXCEPT !.round = Append(@, LoadCmd) ],
                        LoadEnterSelect(load.i + 1))
    /\ UNCHANGED singleVars

\* an interrupt signal, or client.activate() failed as it did for load_single.py:
\* the finally block deactivates and closes the client and sends no command
LoadStop ==
    /\ load.pc \notin { "none", "exit" }
    /\ load.pc = "activate" => pc = "returned"
    /\ load' = [ load EXCEPT !.pc = "exit" ]
    /\ UNCHANGED singleVars

NextPair ==
    \/ Paced /\ NextRunning
    \/ LoadAdd
    \/ LoadSet
    \/ LoadBypass
    \/ LoadConnect
    \/ LoadSync
    \/ LoadGet
    \/ LoadSelect
    \/ LoadStop

InitPair ==
    /\ InitWith(RouteDocs, Batches, MaxRouteCycles, MaxRouteFaults, 0)
    /\ arg = << >>
    /\ ret = NoRet
    /\ load = LoadStart
    /\ Shipped

\* both programs on one document, one sequence of replies and one sequence of events
SpecPair == InitPair /\ [][NextPair]_vars


(***************************************************************************)
(* The reply classifiers and expand_port, called on their own with texts    *)
(* drawn from bounded families                                              *)
(***************************************************************************)
\* bytes a peer may put around, between and after the two fields of a reply
ReplyLead == { << >>, << " " >>, << "NUL" >>, << "NUL", " " >> }

ReplyHead == { << "r", "e", "s", "p" >>, << "r", "e", "s" >>, Garbage }

ReplySep ==
    { << >>, << " " >>, << "\t" >>, << "\n" >>, << " ", " " >>, << "NUL" >>, << " ", "NUL" >>,
      << "NUL", " " >> }

ReplyCode ==
    { << >>, << "0" >>, << "0", "0" >>, << "+", "0" >>, << "-", "0" >>, << "7" >>,
      << "1", "0" >>, << "-", "1", "0", "1" >>, << "0", "x" >>, << "-" >> }

ReplyTrail ==
    { << >>, << "NUL", "NUL" >>, << "\n" >>, << " ", "j" >>, << "NUL", "5" >>, << " ", "7" >> }

ReplyTexts ==
    { a \o b \o c \o d \o e :
        a \in ReplyLead, b \in ReplyHead, c \in ReplySep, d \in ReplyCode, e \in ReplyTrail }

\* port names of a pedalboard document and of JACK
PortLeft ==
    { << >>, << "1" >>, << "1", "0" >>, << "1", "a" >>, << "a", "1" >>, << " ", "1" >>,
      << "-", "1" >>, << "s", "y", "s", "t", "e", "m" >>,
      << "e", "f", "f", "e", "c", "t", "_", "1", "0" >> }

PortRight ==
    { << >>, << "o", "u", "t" >>, << "i", "n", ":", "x" >>, << "2", ":", "x" >>, << ":" >> }

PortNames == PortLeft \cup { l \o << ":" >> \o r : l \in PortLeft, r \in PortRight }

\* the `what` the four zero-expecting helpers hand to expect_zero
ZeroHelpers == { "bypass", "param_set", "patch_set", "connect" }

\* the requested instance id of a mod_add called on its own
AddIds == { 0, 10 }

\* RuntimeError(f"{what} failed: {resp}")
ErrorMessage(what, resp) == << [ what |-> what, resp |-> resp ] >>

\* the verdict of the helper named by `what` on a reply
ZeroHelper(what, o) ==
    CASE what = "bypass" -> mod_bypass(o)
      [] what = "param_set" -> mod_param_set(o)
      [] what = "patch_set" -> mod_patch_set(o)
      [] what = "connect" -> mod_connect(o)

\* mod_bypass / mod_param_set / mod_patch_set / mod_connect on a reply whose bytes are arg
ZeroCall ==
    /\ ret = NoRet
    /\ \E what \in ZeroHelpers :
          LET o == Outcome("reply", arg, TRUE)
              resp == send_cmd_decode(o.raw)
              raised == ~ZeroHelper(what, o)
          IN  ret' = [ fn |-> "expect_zero", what |-> what, resp |-> resp,
                       raised |-> raised,
                       message |-> IF raised THEN ErrorMessage(what, resp) ELSE << >>,
                       value |-> << >>, calls |-> 1 ]
    /\ UNCHANGED << inputVars, arg, load, faultLeft, sigLeft, sigAt, pc, i, j, sock, sessionVars,
                    routerVars, hostInst, jackVars, callbackVars, logVars, ghostVars, last >>

\* a WARNING line is printed when the code differs from the requested id
add_warns(resp, instance_id) ==
    expect_nonnegative(resp) /\ parse_resp(resp) # Some(instance_id)

\* the try block of the add loop (mod_add, then loaded_ids.append) for instance id,
\* on a reply whose bytes are arg
AddCall ==
    /\ ret = NoRet
    /\ \E id \in AddIds :
          LET o == Outcome("reply", arg, TRUE)
              resp == send_cmd_decode(o.raw)
              raised == ~mod_add(o)
          IN  /\ ret' = [ fn |-> "expect_nonnegative", what |-> "add", resp |-> resp,
                          raised |-> raised,
                          message |-> IF raised THEN ErrorMessage("add", resp) ELSE << >>,
                          value |-> IF raised THEN << id >>
                                    ELSE << id, parse_resp(resp)[1],
                                            IF add_warns(resp, id) THEN 1 ELSE 0 >>,
                          calls |-> 1 ]
              /\ loaded_ids' = IF mod_add(o) THEN Append(loaded_ids, id) ELSE loaded_ids
    /\ UNCHANGED << inputVars, arg, load, faultLeft, sigLeft, sigAt, pc, i, j, sock, piano_ids,
                    active_piano, active_connections, routerVars, hostInst, jackVars,
                    callbackVars, logVars, ghostVars, last >>

\* expand_port on arg
ExpandCall ==
    /\ ret = NoRet
    /\ ret' = [ NoRet EXCEPT !.fn = "expand_port", !.value = expand_port(arg), !.calls = 1 ]
    /\ UNCHANGED << inputVars, arg, load, faultLeft, sigLeft, sigAt, pc, i, j, sock, sessionVars,
                    routerVars, hostInst, jackVars, callbackVars, logVars, ghostVars, last >>

\* expand_port on what expand_port returned
ExpandAgain ==
    /\ ret.fn = "expand_port"
    /\ ret.calls = 1
    /\ arg' = ret.value
    /\ ret' = [ ret EXCEPT !.value = expand_port(ret.value), !.calls = 2 ]
    /\ UNCHANGED << inputVars, load, faultLeft, sigLeft, sigAt, pc, i, j, sock, sessionVars,
                    routerVars, hostInst, jackVars, callbackVars, logVars, ghostVars, last >>

NextHelpers ==
    \/ ZeroCall
    \/ AddCall
    \/ ExpandCall
    \/ ExpandAgain

InitHelpers ==
    /\ InitWith({ Doc(<< >>, << >>) }, { << >> }, 0, 0, 0)
    /\ arg \in ReplyTexts \cup PortNames
    /\ ret = NoRet
    /\ load = NoLoad
    /\ Shipped

\* helper scenarios: one call of a helper on one text
SpecHelpers == InitHelpers /\ [][NextHelpers]_vars

(***************************************************************************)
(* Properties                                                               *)
(***************************************************************************)
\* the program number carried by a Program Change event
ProgramOf(ev) == decode_mido(ev)[1].program

InPianoIds(p) == \E k \in 1..Len(piano_ids) : piano_ids[k] = p

\* a selection round for `data` has been carried through to its last member
RoundComplete == pc = "loop" /\ selLog # << >>

ActiveMembers == { m \in Range(piano_ids) : hostInst[m] = "active" }

\* C2: after a selection of x in which the bypass command of every member was
\* answered "resp 0", exactly one member of piano_ids is non-bypassed on the host,
\* and it is x.
C2_Exclusive == RoundComplete /\ selOk => ActiveMembers = { prog[1] }

\* 10 was the active instrument after setup; 11 has been selected without a failure
C2_Witness ==
    /\ RoundComplete
    /\ selOk
    /\ active_piano = Some(10)
    /\ prog = Some(11)
    /\ hostInst[10] = "bypassed"
    /\ hostInst[11] = "active"

\* C3: a Program Change whose program number equals that of the latest Program
\* Change dequeued before it (directly before it, or with only other or undecodable
\* events in between) starts no selection round: no bypass command is sent for it.
C3_Debounce ==
    (IsProgramChange(data) /\ prevPC = Some(ProgramOf(data))) =>
        selLog = << >> /\ pc # "select"

\* Program Change 11 was selected, other events followed, and a second Program
\* Change 11 has been dequeued and dropped
C3_Witness ==
    /\ pc = "loop"
    /\ data = << 193, 11 >>
    /\ prevPC = Some(11)
    /\ prevGap
    /\ selLog = << >>
    /\ hostInst[11] = "active"
    /\ hostInst[10] = "bypassed"

\* a step of the process callback that took a batch of incoming events
CallbackTookBatch == cycLeft' < cycLeft

\* the first events of batch b, as many as the queue has room for
Fitting(b) ==
    SubSeq(b, 1, IF Len(b) <= EVENT_Q_MAXSIZE - Len(event_q)
                 THEN Len(b)
                 ELSE EVENT_Q_MAXSIZE - Len(event_q))

\* C4: whatever the occupancy of event_q, a processing cycle with input can run
\* (the callback neither waits for room nor fails); event_q never holds more than
\* 2048 events; a cycle queues the events of its batch in order for as long as
\* there is room and discards the rest, so that a full queue is left unchanged.
C4_CallbackNeverBlocks ==
    /\ [](Len(event_q) <= EVENT_Q_MAXSIZE)
    /\ []((jackState = "active" /\ pc \notin FinalPcs /\ cycLeft > 0) => ENABLED Process)
    /\ [][CallbackTookBatch =>
            /\ \E b \in batches : event_q' = event_q \o Fitting(b)
            /\ Len(event_q) = EVENT_Q_MAXSIZE => event_q' = event_q]_vars

\* a burst filled the queue up to one free place, and of the pair of Program
\* Changes that followed the first was queued and the second discarded
C4_Witness ==
    /\ cycLeft = 0
    /\ Len(event_q) = EVENT_Q_MAXSIZE
    /\ event_q = Burst \o << << 193, 10 >> >>

\* what teardown has to attempt: the recorded connections, latest first, then the
\* recorded instances, latest first, then the JACK client
DisconnectSteps ==
    [ k \in 1..Len(active_connections) |->
        DisconnectCmd(Reverse(active_connections)[k][1], Reverse(active_connections)[k][2]) ]

RemoveSteps == [ k \in 1..Len(loaded_ids) |-> RemoveCmd(Reverse(loaded_ids)[k]) ]

ExpectedTeardown == DisconnectSteps \o RemoveSteps \o << DeactivateStep, CloseStep >>

\* C5: the steps of teardown are, in this order, one disconnect per recorded
\* connection in the reverse of the order of creation, then one remove per recorded
\* instance in the reverse of the order of creation; no remove precedes a disconnect.
C5_ReverseOrder ==
    /\ IsPrefix(tearLog, ExpectedTeardown)
    /\ pc = "exit" => tearLog = ExpectedTeardown

\* a session of three instances and three connections has been torn down
C5_Witness ==
    /\ pc = "exit"
    /\ Len(active_connections) = 3
    /\ Len(loaded_ids) = 3
    /\ tearLog = ExpectedTeardown

\* the steps the document declares: the adds, then per instance its patch state,
\* its controls and its bypass flag, then the connections
PluginSteps(sid) ==
    [ n \in 1..Len(StateOf(sid)) |-> PatchSetCmd(sid, StateOf(sid)[n][1], StateOf(sid)[n][2]) ]
    \o [ n \in 1..Len(ControlsOf(sid)) |->
           ParamSetCmd(sid, ControlsOf(sid)[n][1], ControlsOf(sid)[n][2]) ]
    \o (IF PluginOf(sid).bypass = "absent"
        THEN << >>
        ELSE << BypassCmd(sid, PluginOf(sid).bypass = "true") >>)

RECURSIVE ConfigSteps(_)
ConfigSteps(ids) ==
    IF ids = << >> THEN << >> ELSE PluginSteps(Head(ids)) \o ConfigSteps(Tail(ids))

DeclaredSetup ==
    [ k \in 1..Len(SortedIds) |-> AddCmd(SortedIds[k]) ]
    \o ConfigSteps(SortedIds)
    \o [ k \in 1..Len(connections) |->
           ConnectCmd(expand_port(connections[k].from), expand_port(connections[k].to)) ]

SetupPcs == { "scan" } \cup SetupCmdPcs

\* main() has left the setup loops by running through them
SetupOver == pc \notin SetupPcs /\ (pc = "killed" => sigAt[1][1] \notin SetupPcs)

\* the step that ends an add / a connect
AddEnds == pc = "add" /\ pc' # "killed" /\ << pc', i' >> # << pc, i >>

ConnectEnds == pc = "connect" /\ pc' # "killed" /\ << pc', i' >> # << pc, i >>

LastSetupCmd == setupLog'[Len(setupLog')]

\* C6: setup attempts every declared step once, in order, whatever steps fail (no
\* step is retried, none is skipped after a failure); an add that succeeds appends
\* its instance to loaded_ids and one that fails leaves loaded_ids as it is, a
\* connect that succeeds appends its connection to active_connections and one that
\* fails leaves it as it is, and nothing else changes the two lists.
C6_BestEffortSetup ==
    /\ [](IsPrefix(setupLog, DeclaredSetup) /\ (SetupOver => setupLog = DeclaredSetup))
    /\ [][IF AddEnds
          THEN loaded_ids' = IF last'.respOk
                             THEN Append(loaded_ids, LastSetupCmd.inst)
                             ELSE loaded_ids
          ELSE loaded_ids' = loaded_ids]_vars
    /\ [][IF ConnectEnds
          THEN active_connections' =
                   IF last'.respOk
                   THEN Append(active_connections, << LastSetupCmd.src, LastSetupCmd.dst >>)
                   ELSE active_connections
          ELSE active_connections' = active_connections]_vars

\* setup ran to its end although two of its steps failed, one of them a connect
C6_Witness ==
    /\ pc = "activate"
    /\ faultLeft = 0
    /\ Len(connections) = 3
    /\ Len(active_connections) = 2
    /\ Len(loaded_ids) = 2
    /\ setupLog = DeclaredSetup

\* the teardown steps attempted once main() stands at its position
TeardownStepsBefore ==
    CASE pc = "disconnect" ->
             (Len(active_connections) - i) + (IF sending THEN 1 ELSE 0)
      [] pc = "remove" ->
             Len(active_connections) + (Len(loaded_ids) - i) + (IF sending THEN 1 ELSE 0)
      [] pc = "deactivate" -> Len(active_connections) + Len(loaded_ids)
      [] pc = "close" -> Len(active_connections) + Len(loaded_ids) + 1
      [] pc = "exit" -> Len(active_connections) + Len(loaded_ids) + 2
      [] OTHER -> Len(tearLog)

ExpectedSelection ==
    [ k \in 1..Len(piano_ids) |-> BypassCmd(piano_ids[k], piano_ids[k] # prog[1]) ]

Ascending(s) == \A a, b \in 1..Len(s) : a < b => s[a] < s[b]

\* C8: a Program Change that is not debounced and whose program x is a member of
\* piano_ids is answered by one bypass command per member, in ascending order of
\* the members' ids, with argument 0 for x and 1 for every other member; a command
\* that fails is logged, the commands of the remaining members are still sent, and
\* main() is back in the router loop afterwards.
C8_SelectionRound ==
    /\ Ascending(piano_ids)
    /\ selLog # << >> => IsPrefix(selLog, ExpectedSelection)
    /\ pc = "select" => Len(selLog) = (i - 1) + (IF sending THEN 1 ELSE 0)
    /\ (/\ pc = "loop"
        /\ IsProgramChange(data)
        /\ InPianoIds(ProgramOf(data))
        /\ prevPC # Some(ProgramOf(data))) => selLog = ExpectedSelection
    /\ (pc \in LoopPcs /\ last.op = "bypass" /\ ~last.respOk) => last.printed
    /\ (selLog # << >> /\ sigAt = << >>) => pc \in LoopPcs

\* 11 was selected; the command for 10 failed, the command for 11 was still sent
\* and went through, and main() is back at the head of the loop
C8_Witness ==
    /\ RoundComplete
    /\ prog = Some(11)
    /\ ~selOk
    /\ selLog = ExpectedSelection
    /\ last.op = "bypass"
    /\ last.respOk
    /\ hostInst[11] = "active"

\* C9 as stated: once an interrupt signal has reached the running router loop, the
\* program does not end before teardown has run to completion: every recorded
\* connection got its disconnect, every recorded instance its remove, and the JACK
\* client was deactivated and closed.
C9_TeardownCompletes ==
    (sigAt # << >> /\ sigAt[1][1] \in LoopPcs /\ pc \in FinalPcs) =>
        (pc = "exit" /\ tearLog = ExpectedTeardown)

\* C10: at no time is more than one command connection open, in setup, in the
\* router loop and in teardown, also after an interrupt signal has cut a command
\* short.
C10_OneCommandAtATime == openSocks <= 1 /\ (sending => openSocks = 1)

\* an interrupt signal arrived while a bypass command of the router loop was in
\* progress, and teardown is now sending a command of its own
C10_Witness ==
    /\ sigAt # << >>
    /\ sigAt[1] = << "select", TRUE >>
    /\ pc \in TeardownCmdPcs
    /\ sending
    /\ openSocks = 1

(***************************************************************************)
(* C11: which replies the zero-expecting helpers accept                     *)
(***************************************************************************)
\* the reply with its null bytes removed and the surrounding whitespace stripped
Cleaned(raw) == Strip(RemoveNul(raw))

\* the characters of s up to its first whitespace character
RECURSIVE TakeToken(_)
TakeToken(s) ==
    IF s = << >> \/ Head(s) \in Whitespace THEN << >>
    ELSE << Head(s) >> \o TakeToken(Tail(s))

\* r is `resp`, one character out of seps, then optional whitespace and a token that
\* is a decimal integer of value 0
RespThenZero(r, seps) ==
    /\ Len(r) > 5
    /\ SubSeq(r, 1, 4) = << "r", "e", "s", "p" >>
    /\ r[5] \in seps
    /\ ParseInt(TakeToken(LStrip(SubSeq(r, 5, Len(r))))) = Some(0)

\* a call that raised carries the operation and the reply text in its error
CarriesOperationAndReply ==
    ret.raised => ret.message = << [ what |-> ret.what, resp |-> Cleaned(arg) ] >>

\* C11 as stated: bypass, param_set, patch_set and connect accept a reply iff, with
\* its null bytes removed, it is `resp` followed by whitespace and the integer 0;
\* every other reply raises an error carrying the operation and the reply.
C11_AcceptsRespWhitespaceZero ==
    ret.fn = "expect_zero" =>
        /\ ~ret.raised <=> RespThenZero(Cleaned(arg), Whitespace)
        /\ CarriesOperationAndReply

\* C11 amended: bypass, param_set, patch_set and connect accept a reply iff, with its
\* null bytes removed and stripped, it starts with `resp` and a space character and
\* its second whitespace-separated token is a decimal integer of value 0 (further
\* tokens are ignored); every other reply, `resp` followed by a tab or a newline
\* included, raises an error carrying the operation and the reply.
C11_AcceptsRespSpaceZero ==
    ret.fn = "expect_zero" =>
        /\ ~ret.raised <=> RespThenZero(Cleaned(arg), { " " })
        /\ CarriesOperationAndReply

\* "resp 0\x00\x00" has been handed to a helper and was accepted
C11_Witness ==
    /\ ret.fn = "expect_zero"
    /\ arg = RespZero \o << "NUL", "NUL" >>
    /\ ~ret.raised

(***************************************************************************)
(* C12: which replies mod_add accepts, and what the add loop records        *)
(***************************************************************************)
\* the integer a reply carries after `resp` and a space, None when it carries none
CodeOf(r) ==
    IF Len(r) > 5 /\ SubSeq(r, 1, 5) = Resp
    THEN ParseInt(TakeToken(LStrip(SubSeq(r, 5, Len(r)))))
    ELSE None

\* C12: add succeeds iff the reply parses to an integer >= 0 and raises otherwise; a
\* non-negative code that differs from the requested id is only warned about: the add
\* succeeds and the requested id is appended to loaded_ids.
C12_AddAcceptsNonNegative ==
    ret.fn = "expect_nonnegative" =>
        LET code == CodeOf(Cleaned(arg))
            id == ret.value[1]
        IN  /\ ~ret.raised <=> (code # None /\ code[1] >= 0)
            /\ ret.raised => loaded_ids = << >> /\ ret.message # << >>
            /\ ~ret.raised =>
                 /\ loaded_ids = << id >>
                 /\ ret.value[2] = code[1]
                 /\ ret.value[3] = 1 <=> code[1] # id

\* instance 10 was requested, the host answered "resp 7": warned about and recorded as 10
C12_Witness ==
    /\ ret.fn = "expect_nonnegative"
    /\ arg = Resp \o << "7" >>
    /\ ~ret.raised
    /\ ret.value = << 10, 7, 1 >>
    /\ loaded_ids = << 10 >>

(***************************************************************************)
(* C13: expand_port                                                         *)
(***************************************************************************)
\* p is "<digits>:<rest>": one or more decimal digits, then a colon
DigitsColon(p) ==
    \E k \in 2..Len(p) : p[k] = ":" /\ \A m \in 1..(k - 1) : p[m] \in Digits

\* "effect_<digits>:<rest>" for "<digits>:<rest>", the name itself otherwise
Expanded(p) ==
    IF DigitsColon(p) THEN << "e", "f", "f", "e", "c", "t", "_" >> \o p ELSE p

\* C13: expand_port maps "<digits>:<rest>" to "effect_<digits>:<rest>", splitting at
\* the first colon, and returns every other name unchanged; applied to its own result
\* it returns that result (expand_port(expand_port(p)) = expand_port(p)).
C13_ExpandPortIdempotent ==
    ret.fn = "expand_port" =>
        /\ ret.value = Expanded(arg)
        /\ ret.calls = 2 => ret.value = arg

\* "10:in:x" was expanded to "effect_10:in:x", and expanding that changed nothing
C13_Witness ==
    /\ ret.fn = "expand_port"
    /\ ret.calls = 2
    /\ arg = << "e", "f", "f", "e", "c", "t", "_", "1", "0", ":", "i", "n", ":", "x" >>
    /\ ret.value = arg

(***************************************************************************)
(* C14: how many instruments sound at once                                  *)
(***************************************************************************)
\* C14: at every point of a session after setup, during and after every selection,
\* at most one member of piano_ids is non-bypassed on the host.
C14_AtMostOneActive == SetupOver => Cardinality(ActiveMembers) <= 1

\* the same, for the points of runs in which no command has failed
C14_AtMostOneActiveNoFault ==
    SetupOver /\ faultLeft = MaxRouteFaults => Cardinality(ActiveMembers) <= 1

(***************************************************************************)
(* C15: the order of the setup commands                                     *)
(***************************************************************************)
ConfigOps == { "patch_set", "param_set", "bypass" }

\* patch_set before param_set before bypass
ConfigRank(op) == CASE op = "patch_set" -> 1 [] op = "param_set" -> 2 [] op = "bypass" -> 3

\* the commands of setupLog with the given operation, in the order of issue
IssuedOf(op) == SelectSeq(setupLog, LAMBDA c : c.op = op)

\* command a was issued before command b: is that order allowed
InSetupOrder(a, b) ==
    /\ b.op = "add" => a.op = "add" /\ a.inst < b.inst
    /\ a.op = "connect" => b.op = "connect"
    /\ a.op \in ConfigOps /\ b.op \in ConfigOps =>
         \/ a.inst < b.inst
         \/ a.inst = b.inst /\ ConfigRank(a.op) <= ConfigRank(b.op)

\* C15: setup issues all add commands first, in ascending instance id whatever the
\* document order; then, instance by instance in ascending id, the instance's
\* patch_set commands, then its param_set commands, then its bypass command if the
\* document declares a bypass flag; then the connect commands, in document order. No
\* connect precedes an add or a configuration command and no bypass of an instance
\* precedes one of its patch_set or param_set commands.
C15_SetupOrder ==
    /\ \A a, b \in 1..Len(setupLog) : a < b => InSetupOrder(setupLog[a], setupLog[b])
    /\ IsPrefix(IssuedOf("connect"),
                [ k \in 1..Len(connections) |->
                    ConnectCmd(expand_port(connections[k].from),
                               expand_port(connections[k].to)) ])
    /\ SetupOver =>
         /\ Len(IssuedOf("add")) = Len(plugins)
         /\ Len(IssuedOf("connect")) = Len(connections)
         /\ \A e \in Range(plugins) :
              /\ Cardinality({ k \in 1..Len(setupLog) :
                                 setupLog[k].op = "bypass" /\ setupLog[k].inst = e.sid })
                   = IF e.p.bypass = "absent" THEN 0 ELSE 1
              /\ Cardinality({ k \in 1..Len(setupLog) :
                                 setupLog[k].op = "patch_set" /\ setupLog[k].inst = e.sid })
                   = Len(e.p.state)
              /\ Cardinality({ k \in 1..Len(setupLog) :
                                 setupLog[k].op = "param_set" /\ setupLog[k].inst = e.sid })
                   = Len(e.p.controls)

\* the document lists 11, 12, 10; setup has run through: three adds starting with 10,
\* patch_set, param_set and bypass of 10, bypass of 11, one connect
C15_Witness ==
    /\ pc = "activate"
    /\ plugins = PluginsWith("true", "false")
    /\ plugins[1].sid = 11
    /\ Len(setupLog) = 8
    /\ setupLog[1] = AddCmd(10)
    /\ setupLog[6].op = "bypass"
    /\ setupLog[8].op = "connect"

(***************************************************************************)
(* C16: where an interrupt is acted on                                      *)
(***************************************************************************)
\* C16: the interrupt is acted on only at a router-loop iteration boundary: once the
\* first bypass command of a selection has been issued, the bypass command of every
\* remaining member of piano_ids is issued before any disconnect or remove command.
C16_SelectionFinishedBeforeTeardown ==
    tearLog # << >> => selLog = << >> \/ Len(selLog) = Len(piano_ids)

(***************************************************************************)
(* C17: teardown on every exit                                              *)
(***************************************************************************)
\* the step was attempted during teardown
Attempted(step) == \E n \in 1..Len(tearLog) : tearLog[n] = step

\* C17: on every path by which the process exits once setup has recorded instances or
\* connections (an interrupt signal, or a failure to activate the JACK client),
\* every recorded connection got a disconnect attempt and every recorded instance a
\* remove attempt before the exit. Stated for the runs with at most one signal.
C17_TeardownBeforeExit ==
    (pc \in FinalPcs /\ Len(sigAt) <= 1) =>
        /\ \A k \in 1..Len(DisconnectSteps) : Attempted(DisconnectSteps[k])
        /\ \A k \in 1..Len(RemoveSteps) : Attempted(RemoveSteps[k])

\* the same, for the exits by which main() returns without any signal
C17_TeardownBeforeReturn ==
    pc = "returned" =>
        /\ \A k \in 1..Len(DisconnectSteps) : Attempted(DisconnectSteps[k])
        /\ \A k \in 1..Len(RemoveSteps) : Attempted(RemoveSteps[k])

(***************************************************************************)
(* C18: the order of the SL88 sync                                          *)
(***************************************************************************)
SyncPcs == { "sync_find", "sync_connect", "sync_put", "sync_sleep", "sync_disconnect" }

\* the router has not taken an event off event_q yet
NothingConsumed == data = << >> /\ last_prog = None /\ selLog = << >>

Cycle == cycLeft' # cycLeft \/ outWritten' # outWritten

\* the messages written to out_port, in order
WrittenBytes == [ k \in 1..Len(outWritten) |-> outWritten[k][1] ]

\* C19: over any number of processing cycles the sync Program Change is written to
\* out_port once and never a second time: every message put on send_q is written by
\* the next processing cycle, which leaves send_q empty, and is written by no later
\* cycle; nothing but the one sync message is ever put on send_q.
C19_OneShot ==
    /\ [](WrittenBytes \o send_q \in
            IF active_piano = None THEN { << >> } ELSE { << >>, << SyncMsg >> })
    /\ [][WrittenBytes' \o send_q' # WrittenBytes \o send_q =>
            pc = "sync_put" /\ WrittenBytes \o send_q = << >>]_vars
    /\ [][Cycle => send_q' = << >> /\ WrittenBytes' = WrittenBytes \o send_q]_vars

\* the sync message was written, three more processing cycles have run since the
\* router loop was entered, and it is still the only message written
C19_Witness ==
    /\ pc = "loop"
    /\ cycLeft = 0
    /\ WrittenBytes = << << 193, 10 >> >>
    /\ send_q = << >>

(***************************************************************************)
(* C20: connections made twice                                              *)
(***************************************************************************)
\* no two elements of the sequence are equal
Distinct(seq) == \A a, b \in 1..Len(seq) : a # b => seq[a] # seq[b]

\* C20: for every document, no connect command is issued twice for the same expanded
\* (source, destination) pair within a session, and active_connections never holds
\* the same pair twice.
C20_NoConnectionTwice ==
    /\ Distinct(SelectSeq(setupLog, LAMBDA c : c.op = "connect"))
    /\ Distinct(active_connections)

(***************************************************************************)
(* C21: events the router discards                                          *)
(***************************************************************************)
\* the event is not decodable, or not a Program Change, or a Program Change on a
\* channel other than the configured one
Discarded(ev) ==
    LET msg == decode_mido(ev)
    IN  \/ msg = None
        \/ msg[1].type # "program_change"
        \/ filter_channel # None /\ filter_channel[1] # msg[1].channel

\* the router is at its queue and the queue is empty or has a discarded event first
NothingToRoute == pc = "loop" /\ (event_q = << >> \/ Discarded(Head(event_q)))

\* C21: an event that cannot be decoded, a message that is not a Program Change, a
\* Program Change rejected by the configured channel filter, and a poll timeout each
\* leave last_prog and the host's bypass state as they are and send no command.
C21_DiscardChangesNothing ==
    [][NothingToRoute =>
         /\ pc' = "loop"
         /\ last_prog' = last_prog
         /\ hostInst' = hostInst
         /\ ~sending'
         /\ selLog' = << >> \/ selLog' = selLog]_vars

\* FILTER_CHANNEL is 0; instrument 10 is active and a Program Change for 11 on
\* channel 1 has been taken off the queue and dropped
C21_Witness ==
    /\ filter_channel = Some(0)
    /\ pc = "loop"
    /\ data = << 193, 11 >>
    /\ last_prog = None
    /\ hostInst[10] = "active"
    /\ hostInst[11] = "bypassed"

(***************************************************************************)
(* C22: last_prog follows every accepted Program Change                     *)
(***************************************************************************)
\* the router takes a Program Change off its queue whose program is not last_prog
TakesNewProgram ==
    /\ pc = "loop"
    /\ event_q # << >>
    /\ event_q' = Tail(event_q)
    /\ ~Discarded(Head(event_q))
    /\ last_prog # Some(ProgramOf(Head(event_q)))

\* C22: every accepted Program Change whose program differs from last_prog sets
\* last_prog to its program, member or not; for a member a selection of it starts,
\* for a non-member no command is sent. Hence member x, non-member y, member x gives
\* two selections of x.
C22_LastProgAlwaysUpdated ==
    [][TakesNewProgram =>
         LET p == ProgramOf(Head(event_q))
         IN  /\ last_prog' = Some(p)
             /\ IF InPianoIds(p)
                THEN pc' = "select" /\ prog' = Some(p) /\ selLog' = << >>
                ELSE pc' = "loop" /\ ~sending' /\ selLog' = << >>]_vars

\* Program Change 11, 12, 11 without any failure: 11 is active from its first
\* selection, and the third event has started a selection of 11 again
C22_Witness ==
    /\ faultLeft = MaxRouteFaults
    /\ cycLeft = 0
    /\ event_q = << >>
    /\ pc = "select"
    /\ data = << 193, 11 >>
    /\ prevPC = Some(12)
    /\ last_prog = Some(11)
    /\ hostInst[10] = "bypassed"
    /\ hostInst[11] = "active"
    /\ selLog = << >>

(***************************************************************************)
(* C23: the recorded active instrument and the host                         *)
(***************************************************************************)
\* the largest element of a non-empty set of integers
MaxOf(S) == CHOOSE m \in S : \A n \in S : n <= m

\* C23: after setup active_piano is the member of piano_ids that setup left
\* non-bypassed on the host, the one with the highest id when there are several, and
\* it is None exactly when no member is left non-bypassed.
C23_ActivePianoIsHostState ==
    pc = "activate" =>
        /\ active_piano = None <=> ActiveMembers = { }
        /\ active_piano # None => active_piano = Some(MaxOf(ActiveMembers))

\* the same, for the runs in which no setup command failed
C23_ActivePianoIsHostStateNoFault ==
    pc = "activate" /\ faultLeft = MaxFaults =>
        /\ active_piano = None <=> ActiveMembers = { }
        /\ active_piano # None => active_piano = Some(MaxOf(ActiveMembers))

(***************************************************************************)
(* C24: the bytes of the sync message                                       *)
(***************************************************************************)
\* a 2-byte Program Change on COMMON_CHANNEL for the recorded active instrument
WellFormedSync(m) ==
    /\ Len(m) = 2
    /\ COMMON_CHANNEL - 1 \in 0..15
    /\ m[1] = 192 + (COMMON_CHANNEL - 1)
    /\ m[2] \in 0..127
    /\ Some(m[2]) = active_piano

\* C24: for every active instrument that setup can record, the sync message is a
\* well-formed 2-byte Program Change: status byte 0xC0 | (COMMON_CHANNEL - 1) with the
\* channel in 0..15, data byte the instrument's instance id, in 0..127.
C24_SyncMessageWellFormed ==
    /\ \A k \in 1..Len(send_q) : WellFormedSync(send_q[k])
    /\ \A k \in 1..Len(outWritten) : WellFormedSync(outWritten[k][1])

(***************************************************************************)
(* C25: the instances the router addresses                                  *)
(***************************************************************************)
\* C25: every instance the router sends a bypass command to was added successfully
\* during setup: once setup is over the members of piano_ids are in loaded_ids.
C25_RoutedInstancesWereAdded ==
    /\ \A k \in 1..Len(selLog) : selLog[k].inst \in Range(loaded_ids)
    /\ SetupOver => Range(piano_ids) \subseteq Range(loaded_ids)

\* the first half alone: the commands the router has sent
C25_BypassOnlyToAdded == \A k \in 1..Len(selLog) : selLog[k].inst \in Range(loaded_ids)

(***************************************************************************)
(* C26: the router consumes events in capture order                         *)
(***************************************************************************)
\* the number of events by which a step has lengthened event_q
Grown == Len(event_q') - Len(event_q)

\* the router has taken the event at the head of event_q
TookHead ==
    /\ pc = "loop"
    /\ event_q # << >>
    /\ data' = Head(event_q)
    /\ event_q' = Tail(event_q)

\* the callback has put the first events of a batch behind the waiting ones, and
\* the events of the batch that it has not put found the queue full
PutBehind ==
    \E b \in batches :
        /\ Grown \in 0..Len(b)
        /\ event_q' = event_q \o SubSeq(b, 1, Grown)
        /\ Grown < Len(b) => Len(event_q') = EVENT_Q_MAXSIZE

\* C26: event_q changes in two ways only: the callback puts events of a batch
\* behind the waiting ones, in the order of their capture, leaving out only events
\* that arrive at a full queue; and the router takes the event at the head. So the
\* events the router takes are, in the order of their capture, the captured events
\* less those that arrived at a full queue.
C26_CaptureOrder == [][event_q' # event_q => TookHead \/ PutBehind]_vars

\* the burst filled the queue up to one free place, the second of the two Program
\* Changes that followed was left out, and the router has then taken the first event
\* of the burst: the first Program Change waits behind the rest of the burst
C26_Witness ==
    /\ cycLeft = 0
    /\ data = << 248 >>
    /\ event_q = Tail(Burst) \o << << 193, 10 >> >>

(***************************************************************************)
(* C27: a failed selection is not retried for the same program              *)
(***************************************************************************)
\* the round of bypass commands before this state had a failing command, and the
\* router takes a Program Change for the program of that round
RepeatAfterFailure ==
    /\ pc = "loop"
    /\ ~selOk
    /\ event_q # << >>
    /\ event_q' = Tail(event_q)
    /\ ~Discarded(Head(event_q))
    /\ Some(ProgramOf(Head(event_q))) = prog

\* C27: last_prog holds the program of a selection before its first bypass command
\* is issued; no pass of the selection changes it, whether its command fails or
\* not; and after a selection with a failed command a Program Change with the same
\* program issues no host command and leaves the host as it is.
C27_FailedSelectionNotRetried ==
    /\ [](pc = "select" => prog # None /\ last_prog = prog)
    /\ [][pc = "select" => last_prog' = last_prog]_vars
    /\ [][RepeatAfterFailure =>
            /\ pc' = "loop"
            /\ ~sending'
            /\ selLog' = << >>
            /\ hostInst' = hostInst
            /\ last_prog' = last_prog]_vars

\* the selection of 11 lost its bypass of 10, a second Program Change 11 has been
\* taken, and both instruments are still active
C27_Witness ==
    /\ pc = "loop"
    /\ data = << 193, 11 >>
    /\ prevPC = Some(11)
    /\ last_prog = Some(11)
    /\ selLog = << >>
    /\ faultLeft = 0
    /\ hostInst[10] = "active"
    /\ hostInst[11] = "active"

(***************************************************************************)
(* C28: load.py and load_single.py issue the same commands                  *)
(***************************************************************************)
\* neither program is inside its setup loops
BothSetUp == pc \notin { "scan" } \cup SetupCmdPcs /\ load.pc \notin LoadSetupPcs

\* C28: the setup commands load.py has sent are the first of those load_single.py
\* has sent, in the same order; once load.py has had every reply, one program is out
\* of its setup loops iff the other is, and then their setup commands are the same
\* sequence; once load.py has handled every event load_single.py's router has taken,
\* both hold the same last program, the bypass commands of load_single.py for the
\* latest event are the first of load.py's, and all of them when its selection is
\* finished; and load.py sends no disconnect and no remove.
C28_SameCommands ==
    /\ IsPrefix(load.setup, setupLog)
    /\ Len(load.setup) = Answered /\ load.pc # "exit" =>
           /\ load.pc \in LoadSetupPcs <=> pc \in { "scan" } \cup SetupCmdPcs
           /\ BothSetUp => load.setup = setupLog
    /\ BothSetUp /\ load.taken = Dequeued /\ load.pc = "loop" =>
           /\ load.last_prog = last_prog
           /\ IsPrefix(selLog, load.round)
           /\ pc = "loop" => selLog = load.round
    /\ \A c \in Range(load.setup) \cup Range(load.round) :
           c.op \notin { "disconnect", "remove" }

\* both programs have set the session up with the same commands, a command of
\* load_single.py has failed, and both have finished the selection of 11 with the
\* same two bypass commands
C28_Witness ==
    /\ pc = "loop"
    /\ load.pc = "loop"
    /\ load.taken = Dequeued
    /\ faultLeft = 0
    /\ Len(load.setup) = 8
    /\ load.setup = setupLog
    /\ load.round = << BypassCmd(10, TRUE), BypassCmd(11, FALSE) >>
    /\ selLog = load.round

====
